---- MODULE Spec2Model ----
(***************************************************************************)
(* Model of the query-resolution pipeline of the AI search addon.          *)
(*                                                                         *)
(* Two source files hold two versions of the pipeline:                     *)
(*   src/unnamed/part_000  the delimiter-row version (plain names here)    *)
(*   src/addon.js          the JSON version (names ending in _addon)       *)
(*                                                                         *)
(* JavaScript strings are sequences of one-character strings, so that      *)
(* split, trim, includes, parseInt and the regex replacements are computed *)
(* character by character as the code computes them.                       *)
(***************************************************************************)
EXTENDS Integers, Sequences, FiniteSets, TLC

(***************************************************************************)
(* JavaScript values and string primitives                                 *)
(***************************************************************************)

\* the JavaScript value undefined (no string of characters equals it)
undefined == <<"undefined">>

\* the JavaScript value null
null == <<"null">>

\* the JavaScript number NaN
NaN == <<"NaN">>

\* a JavaScript integer number
Num(n) == <<"num", n>>

IsNum(v) == Len(v) = 2 /\ v[1] = "num"

UpperChars == <<"A","B","C","D","E","F","G","H","I","J","K","L","M","N","O","P","Q","R","S","T","U","V","W","X","Y","Z">>

LowerChars == <<"a","b","c","d","e","f","g","h","i","j","k","l","m","n","o","p","q","r","s","t","u","v","w","x","y","z">>

DigitChars == <<"0","1","2","3","4","5","6","7","8","9">>

SetMin(S) == CHOOSE x \in S : \A y \in S : x <= y

SetMax(S) == CHOOSE x \in S : \A y \in S : x >= y

Range(f) == {f[i] : i \in DOMAIN f}

IndexOf(seq, c) == SetMin({i \in 1..Len(seq) : seq[i] = c})

\* String.prototype.toLowerCase, one character
LowerChar(c) == IF c \in Range(UpperChars) THEN LowerChars[IndexOf(UpperChars, c)] ELSE c

\* String.prototype.toLowerCase
toLowerCase(s) == [i \in 1..Len(s) |-> LowerChar(s[i])]

\* the regex class \s restricted to the characters of the model
IsSpace(c) == c \in {" ", "\t", "\n", "\r"}

\* String.prototype.trimStart
trimStart(s) ==
  LET keep == {i \in 1..Len(s) : ~IsSpace(s[i])}
  IN  IF keep = {} THEN <<>> ELSE SubSeq(s, SetMin(keep), Len(s))

\* String.prototype.trim
trim(s) ==
  LET keep == {i \in 1..Len(s) : ~IsSpace(s[i])}
  IN  IF keep = {} THEN <<>> ELSE SubSeq(s, SetMin(keep), SetMax(keep))

\* String.prototype.includes
includes(s, w) == \E i \in 0..(Len(s) - Len(w)) : SubSeq(s, i + 1, i + Len(w)) = w

\* String.prototype.startsWith
startsWith(s, w) == Len(s) >= Len(w) /\ SubSeq(s, 1, Len(w)) = w

\* String.prototype.split on a one-character separator
RECURSIVE split(_, _)
split(s, c) ==
  LET at == {i \in 1..Len(s) : s[i] = c}
  IN  IF at = {} THEN <<s>>
      ELSE LET k == SetMin(at)
           IN  <<SubSeq(s, 1, k - 1)>> \o split(SubSeq(s, k + 1, Len(s)), c)

\* Array.prototype.join
RECURSIVE join(_, _)
join(parts, sep) ==
  IF parts = <<>> THEN <<>>
  ELSE IF Len(parts) = 1 THEN parts[1]
  ELSE parts[1] \o sep \o join(Tail(parts), sep)

\* String.prototype.slice(0, n)
slice0(s, n) == SubSeq(s, 1, IF Len(s) < n THEN Len(s) ELSE n)

HexChars == <<"0","1","2","3","4","5","6","7","8","9","a","b","c","d","e","f">>

\* the value of the longest prefix of s made of digits of the radix
RECURSIVE digitsValue(_, _, _, _)
digitsValue(s, digits, radix, acc) ==
  IF s = <<>> \/ LowerChar(Head(s)) \notin Range(digits) THEN acc
  ELSE digitsValue(Tail(s), digits, radix, acc * radix + (IndexOf(digits, LowerChar(Head(s))) - 1))

\* the global parseInt(string) with no radix: leading white space skipped, an
\* optional sign, a 0x prefix selects radix 16, the longest digit prefix is the
\* value, NaN when there is no digit
parseInt(s) ==
  LET t    == trimStart(s)
      neg  == t # <<>> /\ Head(t) = "-"
      u    == IF t # <<>> /\ Head(t) \in {"-", "+"} THEN Tail(t) ELSE t
      hex  == Len(u) >= 2 /\ u[1] = "0" /\ u[2] \in {"x", "X"}
      body == IF hex THEN SubSeq(u, 3, Len(u)) ELSE u
      digs == IF hex THEN HexChars ELSE DigitChars
      ok   == body # <<>> /\ LowerChar(Head(body)) \in Range(digs)
      v    == digitsValue(body, digs, IF hex THEN 16 ELSE 10, 0)
  IN  IF ~ok THEN NaN ELSE Num(IF neg THEN 0 - v ELSE v)

\* parseInt applied to a value that is already a number, NaN or undefined
parseIntValue(v) == IF IsNum(v) THEN v ELSE NaN

\* Number to string
RECURSIVE natToString(_)
natToString(n) ==
  IF n < 10 THEN <<DigitChars[n + 1]>>
  ELSE natToString(n \div 10) \o <<DigitChars[(n % 10) + 1]>>

\* String(value) of a number or NaN
numberToString(v) ==
  IF v = NaN THEN <<"N","a","N">>
  ELSE IF v[2] < 0 THEN <<"-">> \o natToString(0 - v[2])
  ELSE natToString(v[2])

\* s.replace(/[^a-z0-9]+/g, "_"): every maximal run of other characters
\* becomes one underscore
replaceNonAlnum(s) ==
  LET alnum == Range(LowerChars) \cup Range(DigitChars)
      mark  == [i \in 1..Len(s) |->
                 IF s[i] \in alnum THEN s[i]
                 ELSE IF i > 1 /\ s[i - 1] \notin alnum THEN "" ELSE "_"]
  IN  SelectSeq(mark, LAMBDA c : c # "")

\* the backtick character (a TLA+ string literal cannot hold it)
Backtick == "BACKTICK"

\* the markdown fence marker
Fence == <<Backtick, Backtick, Backtick>>

\* the markdown fence marker with the csv info string
FenceCsv == Fence \o <<"c","s","v">>

\* a JavaScript string that is truthy: defined and not empty
truthy(s) == s # undefined /\ s # null /\ s # <<>>

\* array destructuring: the i-th element or undefined
Field(fields, i) == IF i <= Len(fields) THEN fields[i] ELSE undefined

movie == <<"m","o","v","i","e">>

series == <<"s","e","r","i","e","s">>

ambiguous == <<"a","m","b","i","g","u","o","u","s">>

(***************************************************************************)
(* Intent classifier                                                       *)
(***************************************************************************)

movieKeywords ==
  { <<"m","o","v","i","e">>,
    <<"m","o","v","i","e","s">>,
    <<"f","i","l","m">>,
    <<"f","i","l","m","s">>,
    <<"c","i","n","e","m","a">>,
    <<"t","h","e","a","t","r","i","c","a","l">>,
    <<"f","e","a","t","u","r","e">>,
    <<"f","e","a","t","u","r","e","s">>,
    <<"m","o","t","i","o","n"," ","p","i","c","t","u","r","e">>,
    <<"b","l","o","c","k","b","u","s","t","e","r">>,
    <<"d","o","c","u","m","e","n","t","a","r","y">>,
    <<"d","o","c","u","m","e","n","t","a","r","i","e","s">> }

seriesKeywords ==
  { <<"s","e","r","i","e","s">>,
    <<"s","h","o","w">>,
    <<"s","h","o","w","s">>,
    <<"t","v">>,
    <<"t","e","l","e","v","i","s","i","o","n">>,
    <<"e","p","i","s","o","d","e">>,
    <<"e","p","i","s","o","d","e","s">>,
    <<"s","i","t","c","o","m">>,
    <<"d","r","a","m","a"," ","s","e","r","i","e","s">>,
    <<"m","i","n","i","s","e","r","i","e","s">>,
    <<"s","e","a","s","o","n">>,
    <<"s","e","a","s","o","n","s">>,
    <<"a","n","i","m","e">>,
    <<"d","o","c","u","m","e","n","t","a","r","y"," ","s","e","r","i","e","s">>,
    <<"d","o","c","u","s","e","r","i","e","s">>,
    <<"w","e","b"," ","s","e","r","i","e","s">> }

movieKeywords_addon ==
  { <<"m","o","v","i","e">>,
    <<"m","o","v","i","e","s">>,
    <<"f","i","l","m">>,
    <<"f","i","l","m","s">>,
    <<"c","i","n","e","m","a">>,
    <<"t","h","e","a","t","r","i","c","a","l">> }

seriesKeywords_addon ==
  { <<"s","e","r","i","e","s">>,
    <<"s","h","o","w">>,
    <<"s","h","o","w","s">>,
    <<"t","v">>,
    <<"t","e","l","e","v","i","s","i","o","n">>,
    <<"e","p","i","s","o","d","e">>,
    <<"e","p","i","s","o","d","e","s">> }

\* determineIntentFromKeywords without the toLowerCase of line 232: the
\* classifier C3 would be wrong about
determineIntentFromKeywords_exact(query) ==
  LET movieMatch  == \E keyword \in movieKeywords : includes(query, keyword)
      seriesMatch == \E keyword \in seriesKeywords : includes(query, keyword)
  IN  IF movieMatch /\ ~seriesMatch THEN movie
      ELSE IF seriesMatch /\ ~movieMatch THEN series
      ELSE ambiguous

\* a classifier that lets the movie keywords win when both sets match
determineIntentFromKeywords_movieFirst(query) ==
  LET q == toLowerCase(query)
      movieMatch  == \E keyword \in movieKeywords : includes(q, keyword)
      seriesMatch == \E keyword \in seriesKeywords : includes(q, keyword)
  IN  IF movieMatch THEN movie
      ELSE IF seriesMatch THEN series
      ELSE ambiguous

determineIntentFromKeywords(query) ==
  LET q == toLowerCase(query)
      movieMatch  == \E keyword \in movieKeywords : includes(q, keyword)
      seriesMatch == \E keyword \in seriesKeywords : includes(q, keyword)
  IN  IF movieMatch /\ ~seriesMatch THEN movie
      ELSE IF seriesMatch /\ ~movieMatch THEN series
      ELSE ambiguous

determineIntentFromKeywords_addon(query) ==
  LET q == toLowerCase(query)
      movieMatch  == \E keyword \in movieKeywords_addon : includes(q, keyword)
      seriesMatch == \E keyword \in seriesKeywords_addon : includes(q, keyword)
  IN  IF movieMatch /\ ~seriesMatch THEN movie
      ELSE IF seriesMatch /\ ~movieMatch THEN series
      ELSE ambiguous

(***************************************************************************)
(* Response normalizer, delimiter rows (src/unnamed/part_000)              *)
(***************************************************************************)

\* an object-valued JavaScript undefined (a missing array or object)
undefinedObj == [js |-> "undefined"]

\* a JavaScript array
Array(xs) == [array |-> xs]

isArray(v) == "array" \in DOMAIN v

HeaderLine == <<"t","y","p","e","|","n","a","m","e","|","y","e","a","r","|","d","e","s","c","r","i","p","t","i","o","n","|","r","e","l","e","v","a","n","c","e">>

\* the id template `ai_${type}_${name.toLowerCase().replace(/[^a-z0-9]+/g, "_")}`
makeId(type, name) ==
  <<"a","i","_">> \o type \o <<"_">> \o replaceNonAlnum(toLowerCase(name))

\* text.split("\n").map((line) => line.trim())
trimmedLines(text) ==
  LET raw == split(text, "\n") IN [i \in 1..Len(raw) |-> trim(raw[i])]

\* line.split("|").map((s) => s.trim())
trimmedFields(line) ==
  LET raw == split(line, "|") IN [i \in 1..Len(raw) |-> trim(raw[i])]

\* the item literal with the year left as text: a parser that C10 would be
\* wrong about
makeItem_rawYear(type, name, year, description, relevance) ==
  [ name        |-> name,
    year        |-> year,
    type        |-> type,
    description |-> description,
    relevance   |-> relevance,
    id          |-> makeId(type, name) ]

\* the item literal built for an accepted row
makeItem(type, name, year, description, relevance) ==
  [ name        |-> name,
    year        |-> parseInt(year),
    type        |-> type,
    description |-> description,
    relevance   |-> relevance,
    id          |-> makeId(type, name) ]

\* the filter of getAIRecommendations: line && !line.startsWith("type|")
keepLine(line) == line # <<>> /\ ~startsWith(line, <<"t","y","p","e","|">>)

\* the row test of getAIRecommendations: lineType === type && name && year
acceptRow(fields, type) ==
  Field(fields, 1) = type /\ truthy(Field(fields, 2)) /\ truthy(Field(fields, 3))

\* the rows of getAIRecommendations turned into items, in line order
RECURSIVE rowItems(_, _)
rowItems(lines, type) ==
  IF lines = <<>> THEN <<>>
  ELSE LET f == trimmedFields(Head(lines))
       IN  (IF acceptRow(f, type)
            THEN <<makeItem(type, f[2], f[3], Field(f, 4), Field(f, 5))>>
            ELSE <<>>) \o rowItems(Tail(lines), type)

\* getAIRecommendations from the model's reply text to the result object:
\* only the list of the requested type exists, and only it is pushed to
parseReply(text, type) ==
  LET lines == SelectSeq(trimmedLines(trim(text)), keepLine)
      items == rowItems(lines, type)
  IN  [ movies |-> IF type = movie THEN Array(items) ELSE undefinedObj,
        series |-> IF type = series THEN Array(items) ELSE undefinedObj ]

\* the result of the catch block of getAIRecommendations
emptyRecommendations(type) ==
  [ movies |-> IF type = movie THEN Array(<<>>) ELSE undefinedObj,
    series |-> IF type = series THEN Array(<<>>) ELSE undefinedObj ]

\* the regex /```csv\s*|\s*```/ matches at position i of s
fenceMatchAt(s, i) ==
  LET rest == SubSeq(s, i, Len(s))
  IN  startsWith(rest, FenceCsv) \/ startsWith(trimStart(rest), Fence)

\* str.replace(/```csv\s*|\s*```/g, ""): the leftmost match is removed, the
\* first alternative preferred, and the scan goes on after it
RECURSIVE stripFences(_)
stripFences(s) ==
  LET at == {i \in 1..Len(s) : fenceMatchAt(s, i)}
  IN  IF at = {} THEN s
      ELSE LET i    == SetMin(at)
               rest == SubSeq(s, i, Len(s))
               tail == IF startsWith(rest, FenceCsv)
                       THEN trimStart(SubSeq(rest, 7, Len(rest)))
                       ELSE SubSeq(trimStart(rest), 4, Len(trimStart(rest)))
           IN  SubSeq(s, 1, i - 1) \o stripFences(tail)

\* the rows of sanitizeCSVString turned into items: the row test is
\* type && name && year, and an item goes to the list its own type names
RECURSIVE csvItems(_, _)
csvItems(lines, listType) ==
  IF lines = <<>> THEN <<>>
  ELSE LET f == trimmedFields(Head(lines))
       IN  (IF truthy(Field(f, 1)) /\ truthy(Field(f, 2)) /\ truthy(Field(f, 3))
               /\ f[1] = listType
            THEN <<makeItem(f[1], f[2], f[3], Field(f, 4), Field(f, 5))>>
            ELSE <<>>) \o csvItems(Tail(lines), listType)

\* sanitizeCSVString: the object it hands to JSON.stringify; the loop starts at
\* index 1, so the first non-empty line is skipped whatever it holds
sanitizeCSVString(str) ==
  LET cleaned == trim(stripFences(str))
      lines   == SelectSeq(trimmedLines(cleaned), LAMBDA l : l # <<>>)
      rest    == IF lines = <<>> THEN <<>> ELSE Tail(lines)
  IN  [ movies |-> Array(csvItems(rest, movie)),
        series |-> Array(csvItems(rest, series)) ]

\* getAIRecommendations without its catch block: a failed call leaves the
\* function as an exception. A recommender that C8 would be wrong about
getAIRecommendationsResult_uncaught(outcome, type) ==
  IF outcome.ok
  THEN [ threw |-> FALSE, write |-> TRUE,
         data  |-> [recommendations |-> parseReply(outcome.text, type)] ]
  ELSE [ threw |-> TRUE, write |-> FALSE,
         data  |-> [recommendations |-> undefinedObj] ]

\* getAIRecommendations after the await of the model call. outcome.ok says
\* the call and response.text() returned; everything after the cache read is
\* inside try/catch, and the catch returns the empty result without writing
\* the cache. threw: an exception leaves the function; write: the cache entry
\* is set to data
getAIRecommendationsResult(outcome, type) ==
  IF outcome.ok
  THEN [ threw |-> FALSE, write |-> TRUE,
         data  |-> [recommendations |-> parseReply(outcome.text, type)] ]
  ELSE [ threw |-> FALSE, write |-> FALSE,
         data  |-> [recommendations |-> emptyRecommendations(type)] ]

(***************************************************************************)
(* Response normalizer, JSON (src/addon.js)                                *)
(***************************************************************************)

\* an object-valued JavaScript null
nullObj == [js |-> "null"]

\* a truthy value that is no array (a string or a number where a list belongs)
notArray == [js |-> "string"]

\* JSON.parse raised
SyntaxError == [js |-> "SyntaxError"]

\* a value is truthy when used as a condition
truthyObj(v) == v # undefinedObj /\ v # nullObj

\* the parse cascade of getAIRecommendations. doc.strict is what
\* JSON.parse(sanitizeJSONString(text)) gives. When it raises, the catch block
\* assigns to cleanedText, which is declared const: the assignment raises a
\* TypeError before the second JSON.parse and JSON5.parse are reached
parseCascade_addon(doc) ==
  IF doc.strict = SyntaxError THEN [threw |-> TRUE, value |-> nullObj]
  ELSE [threw |-> FALSE, value |-> doc.strict]

\* the .map of lines 315-333 raises: the list has no map, or an item is null
mapRaises_addon(list) ==
  truthyObj(list) /\ (~isArray(list) \/ \E i \in 1..Len(list.array) : list.array[i] = nullObj)

\* lines 316-322 and 326-332: one mapped item
mapItem_addon(item, type) ==
  [ name        |-> IF truthy(item.title) THEN item.title ELSE item.name,
    year        |-> item.year,
    type        |-> type,
    description |-> item.description,
    relevance   |-> item.relevance ]

\* the list after the mapping of lines 315-333 and the `|| []` of 342/345
mappedList_addon(list, type) ==
  IF truthyObj(list)
  THEN [i \in 1..Len(list.array) |-> mapItem_addon(list.array[i], type)]
  ELSE <<>>

\* lines 352-361: item.name.toLowerCase() raises unless name is a string
idRaises_addon(items) == \E i \in 1..Len(items) : items[i].name \in {undefined, null}

\* lines 352-361: the id `ai_${type}_${index + 1}_${slug}`
withIds_addon(items, type) ==
  [i \in 1..Len(items) |->
     [ name        |-> items[i].name,
       year        |-> items[i].year,
       type        |-> items[i].type,
       description |-> items[i].description,
       relevance   |-> items[i].relevance,
       id          |-> <<"a","i","_">> \o type \o <<"_">> \o natToString(i) \o <<"_">>
                         \o replaceNonAlnum(toLowerCase(items[i].name)) ]]

\* the result of the catch block of getAIRecommendations (lines 375-385)
emptyResponse_addon(keywordIntent) ==
  [ intent |-> keywordIntent,
    recommendations |->
      [ movies |-> IF keywordIntent \in {movie, ambiguous} THEN Array(<<>>) ELSE undefinedObj,
        series |-> IF keywordIntent \in {series, ambiguous} THEN Array(<<>>) ELSE undefinedObj ] ]

\* getAIRecommendations of addon.js after the await of the model call
getAIRecommendationsResult_addon(outcome, query) ==
  LET keywordIntent == determineIntentFromKeywords_addon(query)
      fallback == [threw |-> FALSE, write |-> FALSE, data |-> emptyResponse_addon(keywordIntent)]
      parsed   == parseCascade_addon(outcome.doc)
      ai       == parsed.value
      recs     == ai.recommendations
      movies   == mappedList_addon(recs.movies, movie)
      seriesL  == mappedList_addon(recs.series, series)
      hasM     == keywordIntent \in {movie, ambiguous}
      hasS     == keywordIntent \in {series, ambiguous}
  IN  IF ~outcome.ok \/ parsed.threw THEN fallback
      ELSE IF ai = nullObj \/ ~truthyObj(recs) THEN fallback
      ELSE IF mapRaises_addon(recs.movies) \/ mapRaises_addon(recs.series) THEN fallback
      ELSE IF (hasM /\ idRaises_addon(movies)) \/ (hasS /\ idRaises_addon(seriesL)) THEN fallback
      ELSE [ threw |-> FALSE, write |-> TRUE,
             data  |->
               [ intent |-> IF keywordIntent # ambiguous THEN keywordIntent
                            ELSE IF truthy(ai.intent) THEN ai.intent ELSE ambiguous,
                 recommendations |->
                   [ movies |-> IF hasM THEN Array(withIds_addon(movies, movie)) ELSE undefinedObj,
                     series |-> IF hasS THEN Array(withIds_addon(seriesL, series)) ELSE undefinedObj ] ] ]

(***************************************************************************)
(* Enrichment and shaping (toStremioMeta, both files)                      *)
(***************************************************************************)

PosterBase == <<"h","t","t","p","s",":","/","/","i","m","a","g","e",".","t","m","d","b",".","o","r","g","/","t","/","p","/","w","5","0","0">>

BackdropBase == <<"h","t","t","p","s",":","/","/","i","m","a","g","e",".","t","m","d","b",".","o","r","g","/","t","/","p","/","o","r","i","g","i","n","a","l">>

androidTv == <<"a","n","d","r","o","i","d","-","t","v">>

unknown == <<"u","n","k","n","o","w","n">>

\* the length the description is cut to for android-tv
DescriptionLimit == 200

\* the genre table; an id outside it maps to undefined
TMDB_GENRES ==
  [ id \in {28, 12, 16, 35, 80, 99, 18, 10751, 14, 36, 27, 10402, 9648, 10749,
            878, 10770, 53, 10752, 37} |->
      CASE id = 28 -> "Action"      [] id = 12 -> "Adventure" [] id = 16 -> "Animation"
        [] id = 35 -> "Comedy"      [] id = 80 -> "Crime"     [] id = 99 -> "Documentary"
        [] id = 18 -> "Drama"       [] id = 10751 -> "Family" [] id = 14 -> "Fantasy"
        [] id = 36 -> "History"     [] id = 27 -> "Horror"    [] id = 10402 -> "Music"
        [] id = 9648 -> "Mystery"   [] id = 10749 -> "Romance"
        [] id = 878 -> "Science Fiction" [] id = 10770 -> "TV Movie"
        [] id = 53 -> "Thriller"    [] id = 10752 -> "War"    [] id = 37 -> "Western" ]

\* tmdbData.genres.map((id) => TMDB_GENRES[id]).filter(Boolean)
genreNames(ids) ==
  LET known == SelectSeq(ids, LAMBDA id : id \in DOMAIN TMDB_GENRES)
  IN  [i \in 1..Len(known) |-> TMDB_GENRES[known[i]]]

\* String.prototype.replace(pattern, replacement) with a string pattern: the
\* first occurrence only
replaceFirst(s, pat, rep) ==
  LET at == {i \in 0..(Len(s) - Len(pat)) : SubSeq(s, i + 1, i + Len(pat)) = pat}
  IN  IF at = {} THEN s
      ELSE LET i == SetMin(at)
           IN  SubSeq(s, 1, i) \o rep \o SubSeq(s, i + Len(pat) + 1, Len(s))

\* String(year) inside a template literal or URLSearchParams
yearToString(year) ==
  IF year = undefined THEN <<"u","n","d","e","f","i","n","e","d">>
  ELSE IF year = NaN \/ IsNum(year) THEN numberToString(year)
  ELSE year

\* parseInt(year) || 0
yearOrZero(year) ==
  LET n == IF year = undefined THEN NaN
           ELSE IF year = NaN \/ IsNum(year) THEN year
           ELSE parseInt(year)
  IN  IF n = NaN THEN 0 ELSE n[2]

\* the object literal of searchTMDB built from the first search result
\* (part_000 lines 113-126): imdb_id is not among its keys
makeTmdbData(result) ==
  [ poster   |-> IF truthy(result.poster_path) THEN PosterBase \o result.poster_path ELSE null,
    backdrop |-> IF truthy(result.backdrop_path) THEN BackdropBase \o result.backdrop_path ELSE null,
    genres   |-> result.genre_ids,
    overview |-> IF truthy(result.overview) THEN result.overview ELSE <<>>,
    tmdb_id  |-> result.id,
    title    |-> result.title,
    release_date |-> result.release_date,
    imdb_id  |-> undefined ]

\* toStremioMeta, the first test: !item.id || !item.name
invalidItem(item) == ~truthy(item.id) \/ ~truthy(item.name)

\* toStremioMeta of part_000: item.type || (item.id.includes("movie") ? "movie" : "series")
itemType(item) ==
  IF truthy(item.type) THEN item.type
  ELSE IF includes(item.id, movie) THEN movie ELSE series

\* toStremioMeta of addon.js: item.id.includes("movie") ? "movie" : "series"
itemType_addon(item) == IF includes(item.id, movie) THEN movie ELSE series

\* the description with no cut for android-tv: a shaping that C7 would be
\* wrong about
shapeDescription_uncut(item, tmdbData, platform) ==
  IF truthy(tmdbData.overview) THEN tmdbData.overview
  ELSE IF truthy(item.description) THEN item.description
  ELSE <<>>

\* the description of the meta for a platform
shapeDescription(item, tmdbData, platform) ==
  LET full == IF truthy(tmdbData.overview) THEN tmdbData.overview
              ELSE IF truthy(item.description) THEN item.description
              ELSE <<>>
  IN  IF platform = androidTv THEN slice0(full, DescriptionLimit) ELSE full

\* the poster of the meta for a platform
shapePoster(tmdbData, platform) ==
  IF platform = androidTv
  THEN replaceFirst(tmdbData.poster, <<"/","w","5","0","0","/">>, <<"/","w","3","4","2","/">>)
  ELSE tmdbData.poster

\* the test without its poster part: an enrichment that C5 would be wrong about
unresolved_anyPoster(tmdbData) ==
  tmdbData = nullObj \/ ~truthy(tmdbData.imdb_id)

\* the test of toStremioMeta that drops an item
unresolved(tmdbData) ==
  tmdbData = nullObj \/ ~truthy(tmdbData.poster) \/ ~truthy(tmdbData.imdb_id)

\* toStremioMeta after the await of searchTMDB: null, or the meta
shapeMeta(item, type, tmdbData, platform) ==
  IF unresolved(tmdbData) THEN nullObj
  ELSE [ id          |-> tmdbData.imdb_id,
         type        |-> type,
         name        |-> item.name,
         description |-> shapeDescription(item, tmdbData, platform),
         year        |-> yearOrZero(item.year),
         poster      |-> shapePoster(tmdbData, platform),
         background  |-> tmdbData.backdrop,
         posterShape |-> "regular",
         genres      |-> IF Len(tmdbData.genres) > 0
                         THEN Array(genreNames(tmdbData.genres)) ELSE undefinedObj ]

(***************************************************************************)
(* Catalog handler, the part that runs before the first await              *)
(***************************************************************************)

mobile == <<"m","o","b","i","l","e">>

desktop == <<"d","e","s","k","t","o","p">>

\* detectPlatform from the user agent (part_000 lines 458-488)
platformOfUserAgent(ua) ==
  LET userAgent == toLowerCase(IF truthy(ua) THEN ua ELSE <<>>)
  IN  IF \/ includes(userAgent, <<"a","n","d","r","o","i","d"," ","t","v">>)
         \/ includes(userAgent, <<"c","h","r","o","m","e","c","a","s","t">>)
         \/ includes(userAgent, <<"a","n","d","r","o","i","d","t","v">>)
      THEN androidTv
      ELSE IF \/ includes(userAgent, <<"a","n","d","r","o","i","d">>)
              \/ includes(userAgent, mobile)
              \/ includes(userAgent, <<"p","h","o","n","e">>)
      THEN mobile
      ELSE IF \/ includes(userAgent, <<"w","i","n","d","o","w","s">>)
              \/ includes(userAgent, <<"m","a","c","i","n","t","o","s","h">>)
              \/ includes(userAgent, <<"l","i","n","u","x">>)
      THEN desktop
      ELSE unknown

\* detectPlatform raises: the default {} replaces only an undefined extra, so
\* null.headers is a TypeError; and a truthy user agent that is no string has
\* no toLowerCase
detectPlatformRaises(extra) ==
  \/ extra = nullObj
  \/ /\ extra # undefinedObj
     /\ ~truthy(extra.headerPlatform)
     /\ IsNum(extra.userAgent)

\* detectPlatform (part_000 lines 453-489), when it does not raise
detectPlatform(extra) ==
  IF extra = undefinedObj THEN unknown
  ELSE IF truthy(extra.headerPlatform) THEN extra.headerPlatform
  ELSE platformOfUserAgent(extra.userAgent)

\* extra?.search
searchOf(extra) == IF extra \in {undefinedObj, nullObj} THEN undefined ELSE extra.search

\* a search value used as a condition: a number is truthy unless it is 0
truthySearch(v) == IF IsNum(v) THEN v[2] # 0 ELSE truthy(v)

\* the catalog handler of part_000 up to its first await (lines 499-514):
\* "raise" the returned promise rejects, "empty" it returns {metas: []},
\* "fetch" it calls getAIRecommendations(searchQuery, type)
catalogPrefix(args) ==
  IF detectPlatformRaises(args.extra) THEN "raise"
  ELSE IF ~truthySearch(searchOf(args.extra)) THEN "empty"
  ELSE IF IsNum(searchOf(args.extra)) THEN "raise"
  ELSE LET intent == determineIntentFromKeywords(searchOf(args.extra))
       IN  IF intent # ambiguous /\ intent # args.type THEN "empty" ELSE "fetch"

\* the isAndroidTV expression of addon.js (lines 442-445) raises: a user agent
\* that is no string has no toLowerCase
isAndroidTVRaises_addon(extra) ==
  /\ extra \notin {undefinedObj, nullObj}
  /\ extra.platform # androidTv
  /\ extra.headerPlatform # androidTv
  /\ IsNum(extra.userAgent)

\* the isAndroidTV expression of addon.js
isAndroidTV_addon(extra) ==
  /\ extra \notin {undefinedObj, nullObj}
  /\ \/ extra.platform = androidTv
     \/ extra.headerPlatform = androidTv
     \/ /\ truthy(extra.userAgent)
        /\ includes(toLowerCase(extra.userAgent), <<"a","n","d","r","o","i","d"," ","t","v">>)

\* extra?.platform || 'unknown'
platformOf_addon(extra) ==
  IF extra \in {undefinedObj, nullObj} THEN unknown
  ELSE IF truthy(extra.platform) THEN extra.platform ELSE unknown

\* the catalog handler of addon.js up to its first await (lines 437-499):
\* "warmup" it starts the two warmups and returns {metas: []}; "fetch" it calls
\* getAIRecommendations(query), inside its try block
catalogPrefix_addon(args, keys) ==
  IF isAndroidTVRaises_addon(args.extra) THEN "raise"
  ELSE IF ~keys.GEMINI_API_KEY \/ ~keys.TMDB_API_KEY THEN "empty"
  ELSE IF ~truthySearch(searchOf(args.extra)) THEN "warmup"
  ELSE "fetch"

(***************************************************************************)
(* State                                                                   *)
(***************************************************************************)

VARIABLES
  variant,                 \* the source file that is loaded: "part_000" or "addon"
  env,                     \* process.env: which of the two keys are set
  now,                     \* Date.now(), in units of 30 minutes
  aiRecommendationsCache,  \* the Map: cache key -> [timestamp, data]
  tmdbCache,               \* the Map: cache key -> [timestamp, data]
  req,                     \* the handler invocations and where each one waits
  warm,                    \* the detached warmupCache calls and where each waits
  modelCalls,              \* history: generateContent calls issued, per cache key
  tmdbCalls,               \* history: fetch calls issued, per cache key
  input,                   \* the argument of a function applied on its own
  output                   \* its result

vars == <<variant, env, now, aiRecommendationsCache, tmdbCache, req, warm,
          modelCalls, tmdbCalls, input, output>>

mainVars == <<variant, env, now, aiRecommendationsCache, tmdbCache, req, warm,
              modelCalls, tmdbCalls>>

(***************************************************************************)
(* Bounds and the values the environment can supply                        *)
(***************************************************************************)

\* handler invocations in one behaviour
MaxReq == 2

\* the clock stops after this many units
MaxTime == 2

Req == 1..MaxReq

\* CACHE_DURATION = 30 * 60 * 1000 ms, in units of 30 minutes
CACHE_DURATION == 1

\* AI_CACHE_DURATION = 60 * 60 * 1000 ms, in units of 30 minutes
AI_CACHE_DURATION == 2

\* the batch size of the catalog handler of addon.js
batchSize == 5

\* .slice(0, 10) of the catalog handler of part_000
sliceLimit == 10

\* resultLimit of addon.js for android-tv
resultLimitTV == 20

\* resultLimit of addon.js for every other platform
resultLimitDefault == 50

Types == {movie, series}

W_noir == <<"n","o","i","r">>

W_tv == <<"t","v">>

W_film == <<"f","i","l","m">>

popularMovies == <<"p","o","p","u","l","a","r"," ","m","o","v","i","e","s">>

trendingShows == <<"t","r","e","n","d","i","n","g"," ","s","h","o","w","s">>

\* extra.search as the host can pass it: absent, a number, or a string
SearchValues == {Num(7), W_noir, W_tv}

\* an extra object with a search value and no platform hint
ExtraOf(s) ==
  [search |-> s, platform |-> undefined, headerPlatform |-> undefined, userAgent |-> undefined]

\* the extra argument of the catalog handler: absent, null, or an object
Extras == {undefinedObj, nullObj} \cup {ExtraOf(s) : s \in SearchValues}

CatalogArgs == [type : Types, extra : Extras]

RowFull == <<"m","o","v","i","e","|","A","b","|","1","9","9","5","|","d","|","r">>

RowPadded == <<" ","m","o","v","i","e"," ","|"," ","b"," ","c"," ","|"," ","2","0","2","3"," ","|"," "," ","|"," ","r"," ">>

RowShort == <<"m","o","v","i","e","|","A","b","|","1","9","9","5">>

RowBadYear == <<"m","o","v","i","e","|","A","b","|","a","b","c","|","d","|","r">>

RowNoName == <<"m","o","v","i","e","|","|","1","9","9","5","|","d","|","r">>

RowNoYear == <<"m","o","v","i","e","|","A","b","|","|","d","|","r">>

RowWrongCase == <<"M","o","v","i","e","|","A","b","|","1","9","9","5","|","d","|","r">>

RowSeries == <<"s","e","r","i","e","s","|","A","-","b","!","|","0","x","1","F","|","d","|","r","|","x">>

JunkLine == <<"H","e","r","e"," ","y","o","u"," ","g","o",":">>

\* a reply with one movie row and one series row
ReplyBoth ==
  HeaderLine \o <<"\n">> \o RowFull \o <<"\n">> \o RowSeries

\* what the await of model.generateContent and response.text() gives part_000
ModelOutcomes ==
  { [ok |-> FALSE, text |-> <<>>],
    [ok |-> TRUE, text |-> ReplyBoth],
    [ok |-> TRUE, text |-> JunkLine] }

N_Ab == <<"A","b">>

N_bc == <<"b"," ","c">>

\* a JSON item as the model writes it
JsonItem(title, name, year) ==
  [title |-> title, name |-> name, year |-> year, description |-> <<"d">>, relevance |-> <<"r">>]

\* a reply that parses to both lists
DocBoth ==
  [ intent |-> undefined,
    recommendations |->
      [ movies |-> Array(<<JsonItem(undefined, N_Ab, Num(1995))>>),
        series |-> Array(<<JsonItem(undefined, N_Ab, <<"2","0","0","1">>)>>) ] ]

\* a reply that parses to an object with no recommendations key
DocNoRecs == [intent |-> series, recommendations |-> undefinedObj]

\* what the await gives addon.js: doc.strict is JSON.parse of the sanitized text
ModelOutcomes_addon ==
  { [ok |-> FALSE, doc |-> [strict |-> SyntaxError]],
    [ok |-> TRUE, doc |-> [strict |-> SyntaxError]],
    [ok |-> TRUE, doc |-> [strict |-> DocBoth]],
    [ok |-> TRUE, doc |-> [strict |-> DocNoRecs]] }

imdbId == <<"t","t","0","1","1","3","2","7","7">>

\* the first result of a search: with a poster, or without one
TmdbResult(poster_path) ==
  [ poster_path |-> poster_path, backdrop_path |-> null, genre_ids |-> <<28, 1>>,
    overview |-> <<"o">>, id |-> 949, title |-> <<"H","e","a","t">>,
    release_date |-> <<"1","9","9","5","-","1","2","-","1","5">> ]

\* what the await of the search fetch gives: a network error, no result, a result
SearchOutcomes ==
  { [kind |-> "throw"], [kind |-> "none"],
    [kind |-> "found", result |-> TmdbResult(<<"/","p",".","j","p","g">>)],
    [kind |-> "found", result |-> TmdbResult(null)] }

\* what the await of the details fetch gives: a network error, or external_ids
\* with or without an imdb_id
DetailsOutcomes ==
  { [kind |-> "throw"], [kind |-> "ids", imdb_id |-> imdbId], [kind |-> "ids", imdb_id |-> null] }

\* the arguments of the meta handler: a number, an imdb id, a synthesized id
MetaIds == {Num(7), imdbId, <<"a","i","_","m","o","v","i","e","_","1","_","a","b">>}

MetaArgs == [type : {movie}, id : MetaIds]

(***************************************************************************)
(* Caches                                                                  *)
(***************************************************************************)

\* the cache key of getAIRecommendations: `${query}_${type}`
aiCacheKey(query, type) == query \o <<"_">> \o type

\* the cache key of getAIRecommendations of addon.js: `${query}`
aiCacheKey_addon(query) == query

\* the cache key of searchTMDB: `${title}-${type}-${year}`
tmdbCacheKey(title, type, year) ==
  (IF IsNum(title) THEN numberToString(title) ELSE title)
    \o <<"-">> \o type \o <<"-">> \o yearToString(year)

\* the read test with <= in place of <: a cache that C1 would be wrong about
fresh_inclusive(cache, key, t, duration) ==
  key \in DOMAIN cache /\ t - cache[key].timestamp <= duration

\* the read test of both caches: cached && Date.now() - cached.timestamp < duration
fresh(cache, key, t, duration) ==
  key \in DOMAIN cache /\ t - cache[key].timestamp < duration

\* Map.prototype.set
\* a Map whose set would keep the entry a key already has
mapSet_firstWins(cache, key, entry) ==
  IF key \in DOMAIN cache THEN cache ELSE (key :> entry) @@ cache

mapSet(cache, key, entry) == (key :> entry) @@ cache

\* one more call counted under a key
countCall(calls, key) ==
  (key :> (IF key \in DOMAIN calls THEN calls[key] + 1 ELSE 1)) @@ calls

(***************************************************************************)
(* Metadata resolver (searchTMDB) and the fan-out of the catalog handler   *)
(***************************************************************************)

\* sortByYear(a, b): (parseInt(b.year) || 0) - (parseInt(a.year) || 0)
sortByYear(a, b) == yearOrZero(b.year) - yearOrZero(a.year)

\* one step of the stable sort: x goes behind every element that the
\* comparator does not put after it
RECURSIVE insertSorted(_, _)
insertSorted(sorted, x) ==
  IF sorted = <<>> THEN <<x>>
  ELSE IF sortByYear(Head(sorted), x) <= 0
       THEN <<Head(sorted)>> \o insertSorted(Tail(sorted), x)
  ELSE <<x>> \o sorted

\* Array.prototype.sort(sortByYear), which is stable
RECURSIVE sortItems(_)
sortItems(list) ==
  IF list = <<>> THEN <<>>
  ELSE insertSorted(sortItems(SubSeq(list, 1, Len(list) - 1)), list[Len(list)])

\* the tmdbData object of addon.js (lines 41-49): the details are fetched first
makeTmdbData_addon(result, imdb_id) ==
  [ poster   |-> IF truthy(result.poster_path) THEN PosterBase \o result.poster_path ELSE null,
    backdrop |-> IF truthy(result.backdrop_path) THEN BackdropBase \o result.backdrop_path ELSE null,
    genres   |-> result.genre_ids,
    overview |-> IF truthy(result.overview) THEN result.overview ELSE <<>>,
    tmdb_id  |-> result.id,
    title    |-> undefined,
    release_date |-> undefined,
    imdb_id  |-> imdb_id ]

\* one call of toStremioMeta that has not reached searchTMDB yet. hit and at
\* are history: searchTMDB returned a cache entry's data, and when it returned;
\* wrote: it wrote its result to tmdbCache
newLookup(item, type) ==
  [ st |-> IF invalidItem(item) THEN "done" ELSE "wait", valid |-> ~invalidItem(item),
    item |-> item, type |-> type,
    key |-> IF invalidItem(item) THEN <<>> ELSE tmdbCacheKey(item.name, type, item.year),
    data |-> nullObj, hit |-> FALSE, at |-> 0 - 1, wrote |-> FALSE ]

\* a searchTMDB that would still serve an entry written exactly
\* CACHE_DURATION ago
startLookup_inclusive(l, cache, t) ==
  IF fresh_inclusive(cache, l.key, t, CACHE_DURATION)
  THEN [l EXCEPT !.st = "done", !.data = cache[l.key].data, !.hit = TRUE, !.at = t]
  ELSE [l EXCEPT !.st = "search"]

\* searchTMDB up to its first await: a fresh entry is returned, data and all,
\* otherwise the search request is sent
startLookup(l, cache, t) ==
  IF fresh(cache, l.key, t, CACHE_DURATION)
  THEN [l EXCEPT !.st = "done", !.data = cache[l.key].data, !.hit = TRUE, !.at = t]
  ELSE [l EXCEPT !.st = "search"]

\* the next batch is mapped over toStremioMeta: its first `size` waiting calls
startBatch(lookups, size, cache, t) ==
  LET waiting == {i \in 1..Len(lookups) : lookups[i].st = "wait"}
      first   == {i \in waiting : Cardinality({j \in waiting : j < i}) < size}
  IN  [i \in 1..Len(lookups) |->
         IF i \in first THEN startLookup(lookups[i], cache, t) ELSE lookups[i]]

inFlight(lookups) == \E i \in 1..Len(lookups) : lookups[i].st \in {"search", "details"}

waiting(lookups) == \E i \in 1..Len(lookups) : lookups[i].st = "wait"

\* Promise.all of a batch has resolved: the next batch starts, until a batch
\* has to wait for a fetch or no batch is left
RECURSIVE settle(_, _, _, _)
settle(lookups, size, cache, t) ==
  IF inFlight(lookups) \/ ~waiting(lookups) THEN lookups
  ELSE settle(startBatch(lookups, size, cache, t), size, cache, t)

\* the search requests sent while `before` became `after`
RECURSIVE countStarted(_, _, _, _)
countStarted(calls, before, after, i) ==
  IF i > Len(after) THEN calls
  ELSE countStarted(
         IF before[i].st = "wait" /\ after[i].st = "search"
         THEN countCall(calls, after[i].key) ELSE calls,
         before, after, i + 1)

\* toStremioMeta for one finished lookup
metaOfLookup(l, platform) ==
  IF ~l.valid THEN nullObj ELSE shapeMeta(l.item, l.type, l.data, platform)

\* a handler in which one unresolved item empties the whole answer
metasOf_allOrNothing(lookups, platform) ==
  LET all == [i \in 1..Len(lookups) |-> metaOfLookup(lookups[i], platform)]
  IN  IF \E i \in 1..Len(all) : all[i] = nullObj THEN <<>> ELSE all

\* (await Promise.all(metaPromises)).filter(Boolean)
metasOf(lookups, platform) ==
  LET all == [i \in 1..Len(lookups) |-> metaOfLookup(lookups[i], platform)]
  IN  SelectSeq(all, LAMBDA m : m # nullObj)

\* the android-tv truncation of addon.js (lines 540-542)
truncate_addon(metas, isTV) ==
  IF isTV /\ Len(metas) > resultLimitTV THEN SubSeq(metas, 1, resultLimitTV) ELSE metas

\* the meta object of the meta handler of part_000 (lines 546-564): built from
\* any non-null tmdbData, with no test of poster or imdb_id
metaOfTmdb(tmdbData, type) ==
  IF tmdbData = nullObj THEN nullObj
  ELSE [ id          |-> tmdbData.imdb_id,
         type        |-> type,
         name        |-> tmdbData.title,
         description |-> tmdbData.overview,
         year        |-> yearOrZero(tmdbData.release_date),
         poster      |-> tmdbData.poster,
         background  |-> tmdbData.backdrop,
         posterShape |-> "regular",
         genres      |-> Array(genreNames(tmdbData.genres)) ]

\* the item the meta handler of addon.js builds from an ai_ id (lines 558-565)
itemOfId_addon(id) ==
  LET parts == split(id, "_")
      title == join(SubSeq(parts, 4, Len(parts)), <<"_">>)
  IN  [ id |-> id,
        name |-> [i \in 1..Len(title) |-> IF title[i] = "_" THEN " " ELSE title[i]],
        type |-> Field(parts, 2),
        year |-> undefined,
        description |-> undefined ]

(***************************************************************************)
(* The handlers as a state machine                                         *)
(***************************************************************************)

WarmQueries == {popularMovies, trendingShows}

\* a handler invocation that has not been made yet. wrote, replyAt and got are
\* history: getAIRecommendations wrote the cache, when its model call
\* returned, and the object it returned to the handler
IdleReq ==
  [ op |-> "none", pc |-> "idle", args |-> undefinedObj, platform |-> unknown,
    key |-> <<>>, issued |-> FALSE, fetchAt |-> 0 - 1, lookups |-> <<>>,
    wrote |-> FALSE, replyAt |-> 0 - 1, got |-> undefinedObj,
    result |-> [raised |-> FALSE, value |-> undefinedObj] ]

\* module load: part_000 throws when GEMINI_API_KEY is missing (lines 20-22);
\* addon.js has no check at load
serviceUp == variant = "addon" \/ env.GEMINI_API_KEY

\* the handler returns value
returned(rec, value) ==
  [rec EXCEPT !.pc = "done", !.result = [raised |-> FALSE, value |-> value]]

\* the promise of the handler rejects
raisedOut(rec) ==
  [rec EXCEPT !.pc = "done", !.result = [raised |-> TRUE, value |-> undefinedObj]]

\* how many toStremioMeta calls one Promise.all covers
batchOf(rec) ==
  IF variant = "addon" /\ rec.op = "catalog" THEN batchSize ELSE Len(rec.lookups) + 1

\* what the handler returns once every lookup has resolved
finishValue(rec, lookups) ==
  CASE rec.op = "catalog" /\ variant = "part_000" ->
         Array(metasOf(lookups, rec.platform))
    [] rec.op = "catalog" /\ variant = "addon" ->
         Array(truncate_addon(metasOf(lookups, rec.platform), isAndroidTV_addon(rec.args.extra)))
    [] rec.op = "meta" /\ variant = "part_000" ->
         metaOfTmdb(lookups[1].data, rec.args.type)
    [] rec.op = "meta" /\ variant = "addon" ->
         metaOfLookup(lookups[1], unknown)

\* the handler after a change of its lookups: it waits on, or returns
resume(rec, lookups) ==
  IF inFlight(lookups) THEN [rec EXCEPT !.pc = "enrich", !.lookups = lookups]
  ELSE returned([rec EXCEPT !.lookups = lookups], finishValue(rec, lookups))

\* the host makes its calls one after the other: invocation r is made once
\* every invocation before it has been made
callable(r) ==
  /\ req[r].pc = "idle"
  /\ \A s \in Req : s < r => req[s].pc # "idle"

\* recommendations.map((item) => toStremioMeta(item, platform)) of part_000, up
\* to searchTMDB
newLookups(recs) == [i \in 1..Len(recs) |-> newLookup(recs[i], itemType(recs[i]))]

\* batch.map(item => toStremioMeta(item, ...)) of addon.js, up to searchTMDB
newLookups_addon(recs) == [i \in 1..Len(recs) |-> newLookup(recs[i], itemType_addon(recs[i]))]

\* the fan-out: every toStremioMeta call is made, and the handler waits or returns
fanOut(r, rec, fresh0) ==
  \E rec0 \in {[rec EXCEPT !.lookups = fresh0]} :
  \E settled \in {settle(fresh0, batchOf(rec0), tmdbCache, now)} :
    /\ req' = [req EXCEPT ![r] = resume(rec0, settled)]
    /\ tmdbCalls' = countStarted(tmdbCalls, fresh0, settled, 1)
    /\ UNCHANGED tmdbCache

\* the list of the requested type, sorted in place
sortedData(data, type) ==
  IF type = movie /\ isArray(data.recommendations.movies)
  THEN [data EXCEPT !.recommendations.movies = Array(sortItems(data.recommendations.movies.array))]
  ELSE IF type = series /\ isArray(data.recommendations.series)
  THEN [data EXCEPT !.recommendations.series = Array(sortItems(data.recommendations.series.array))]
  ELSE data

\* recommendations[type === "movie" ? "movies" : "series"]
typeList(recommendations, type) ==
  IF type = movie THEN recommendations.movies ELSE recommendations.series

\* the list of a type in the object getAIRecommendations returns
listOf(data, type) == typeList(data.recommendations, type)

\* the catalog handler of part_000 once getAIRecommendations has returned data
\* (lines 517-532). shared: data is the object held by the cache entry `key`,
\* so the in-place sort changes the entry too
afterFetch(r, rec, data, cache, shared) ==
  \E sorted \in {sortedData(data, rec.args.type)} :
  \E list \in {listOf(sorted, rec.args.type)} :
    /\ aiRecommendationsCache' =
         IF shared THEN [cache EXCEPT ![rec.key].data = sorted] ELSE cache
    /\ \E fresh0 \in {newLookups(IF isArray(list) THEN slice0(list.array, sliceLimit) ELSE <<>>)} :
         fanOut(r, [rec EXCEPT !.got = sorted], fresh0)

\* the catalog handler of addon.js once getAIRecommendations has returned data
\* (lines 502-544)
afterFetch_addon(r, rec, data, cache) ==
  \E list \in {listOf(data, rec.args.type)} :
    /\ aiRecommendationsCache' = cache
    /\ IF (data.intent # ambiguous /\ rec.args.type # data.intent)
          \/ ~truthyObj(list) \/ Len(list.array) = 0
       THEN /\ req' = [req EXCEPT ![r] = returned([rec EXCEPT !.got = data], Array(<<>>))]
            /\ UNCHANGED <<tmdbCache, tmdbCalls>>
       ELSE \E fresh0 \in {newLookups_addon(list.array)} :
              fanOut(r, [rec EXCEPT !.got = data], fresh0)

\* the host calls the catalog handler of part_000
CatalogCall(r, args) ==
  /\ variant = "part_000" /\ serviceUp
  /\ callable(r)
  /\ \E pre \in {catalogPrefix(args)} :
     \E rec \in {[req[r] EXCEPT !.op = "catalog", !.args = args]} :
       CASE pre = "raise" ->
              /\ req' = [req EXCEPT ![r] = raisedOut(rec)]
              /\ UNCHANGED <<aiRecommendationsCache, tmdbCache, modelCalls, tmdbCalls>>
         [] pre = "empty" ->
              /\ req' = [req EXCEPT ![r] = returned(rec, Array(<<>>))]
              /\ UNCHANGED <<aiRecommendationsCache, tmdbCache, modelCalls, tmdbCalls>>
         [] pre = "fetch" ->
              \E recF \in {[rec EXCEPT !.platform = detectPlatform(args.extra),
                                       !.key = aiCacheKey(searchOf(args.extra), args.type),
                                       !.fetchAt = now]} :
                IF fresh(aiRecommendationsCache, recF.key, now, AI_CACHE_DURATION)
                THEN /\ \E data \in {aiRecommendationsCache[recF.key].data} :
                          afterFetch(r, recF, data, aiRecommendationsCache, TRUE)
                     /\ UNCHANGED modelCalls
                ELSE /\ req' = [req EXCEPT ![r] = [recF EXCEPT !.pc = "model", !.issued = TRUE]]
                     /\ modelCalls' = countCall(modelCalls, recF.key)
                     /\ UNCHANGED <<aiRecommendationsCache, tmdbCache, tmdbCalls>>
  /\ UNCHANGED <<variant, env, now, warm, input, output>>

\* the model call of a catalog request of part_000 returns or fails
ModelReply(r, outcome) ==
  /\ variant = "part_000"
  /\ req[r].pc = "model"
  /\ \E res \in {getAIRecommendationsResult(outcome, req[r].args.type)} :
     \E cache \in {IF res.write
                   THEN mapSet(aiRecommendationsCache, req[r].key,
                               [timestamp |-> now, data |-> res.data])
                   ELSE aiRecommendationsCache} :
       IF res.threw
       THEN /\ req' = [req EXCEPT ![r] = returned(req[r], Array(<<>>))]
            /\ aiRecommendationsCache' = cache
            /\ UNCHANGED <<tmdbCache, tmdbCalls>>
       ELSE \E rec \in {[req[r] EXCEPT !.wrote = res.write, !.replyAt = now]},
               data \in {res.data} :
              afterFetch(r, rec, data, cache, res.write)
  /\ UNCHANGED <<variant, env, now, warm, modelCalls, input, output>>

\* warmupCache(query) of addon.js up to its await: getAIRecommendations reads
\* the cache and, on a miss, sends the model call
warmStart(state, query) ==
  IF fresh(aiRecommendationsCache, aiCacheKey_addon(query), now, AI_CACHE_DURATION)
  THEN state
  ELSE [ warm  |-> [state.warm EXCEPT ![query] = @ + 1],
         calls |-> countCall(state.calls, aiCacheKey_addon(query)) ]

\* the cache key of a search value: a number is written in decimal
keyOfSearch_addon(q) == aiCacheKey_addon(IF IsNum(q) THEN numberToString(q) ELSE q)

\* the host calls the catalog handler of addon.js
CatalogCall_addon(r, args) ==
  /\ variant = "addon" /\ serviceUp
  /\ callable(r)
  /\ \E pre \in {catalogPrefix_addon(args, env)} :
     \E rec \in {[req[r] EXCEPT !.op = "catalog", !.args = args,
                                !.platform = platformOf_addon(args.extra)]} :
       CASE pre = "raise" ->
              /\ req' = [req EXCEPT ![r] = raisedOut(rec)]
              /\ UNCHANGED <<aiRecommendationsCache, tmdbCache, modelCalls, tmdbCalls, warm>>
         [] pre = "empty" ->
              /\ req' = [req EXCEPT ![r] = returned(rec, Array(<<>>))]
              /\ UNCHANGED <<aiRecommendationsCache, tmdbCache, modelCalls, tmdbCalls, warm>>
         [] pre = "warmup" ->
              \E w1 \in {warmStart([warm |-> warm, calls |-> modelCalls], popularMovies)} :
              \E w2 \in {warmStart(w1, trendingShows)} :
                /\ req' = [req EXCEPT ![r] = returned(rec, Array(<<>>))]
                /\ warm' = w2.warm
                /\ modelCalls' = w2.calls
                /\ UNCHANGED <<aiRecommendationsCache, tmdbCache, tmdbCalls>>
         [] pre = "fetch" ->
              \E q \in {searchOf(args.extra)} :
              \E recF \in {[rec EXCEPT !.key = keyOfSearch_addon(q), !.fetchAt = now]} :
                IF fresh(aiRecommendationsCache, recF.key, now, AI_CACHE_DURATION)
                THEN /\ \E data \in {aiRecommendationsCache[recF.key].data} :
                          afterFetch_addon(r, recF, data, aiRecommendationsCache)
                     /\ UNCHANGED <<modelCalls, warm>>
                ELSE IF IsNum(q)
                THEN \* determineIntentFromKeywords raises inside getAIRecommendations,
                     \* and the try block of the handler turns it into {metas: []}
                     /\ req' = [req EXCEPT ![r] = returned(recF, Array(<<>>))]
                     /\ UNCHANGED <<aiRecommendationsCache, tmdbCache, modelCalls, tmdbCalls, warm>>
                ELSE /\ req' = [req EXCEPT ![r] = [recF EXCEPT !.pc = "model", !.issued = TRUE]]
                     /\ modelCalls' = countCall(modelCalls, recF.key)
                     /\ UNCHANGED <<aiRecommendationsCache, tmdbCache, tmdbCalls, warm>>
  /\ UNCHANGED <<variant, env, now, input, output>>

\* the model call of a catalog request of addon.js returns or fails
ModelReply_addon(r, outcome) ==
  /\ variant = "addon"
  /\ req[r].pc = "model"
  /\ \E res \in {getAIRecommendationsResult_addon(outcome, searchOf(req[r].args.extra))} :
     \E cache \in {IF res.write
                   THEN mapSet(aiRecommendationsCache, req[r].key,
                               [timestamp |-> now, data |-> res.data])
                   ELSE aiRecommendationsCache} :
       IF res.threw
       THEN /\ req' = [req EXCEPT ![r] = returned(req[r], Array(<<>>))]
            /\ aiRecommendationsCache' = cache
            /\ UNCHANGED <<tmdbCache, tmdbCalls>>
       ELSE \E rec \in {[req[r] EXCEPT !.wrote = res.write, !.replyAt = now]},
               data \in {res.data} :
              afterFetch_addon(r, rec, data, cache)
  /\ UNCHANGED <<variant, env, now, warm, modelCalls, input, output>>

\* the model call of a warmupCache returns or fails; warmupCache drops the
\* result and swallows an exception
WarmReply_addon(query, outcome) ==
  /\ variant = "addon"
  /\ warm[query] > 0
  /\ \E res \in {getAIRecommendationsResult_addon(outcome, query)} :
       aiRecommendationsCache' =
         IF res.write
         THEN mapSet(aiRecommendationsCache, aiCacheKey_addon(query),
                     [timestamp |-> now, data |-> res.data])
         ELSE aiRecommendationsCache
  /\ warm' = [warm EXCEPT ![query] = @ - 1]
  /\ UNCHANGED <<variant, env, now, tmdbCache, req, modelCalls, tmdbCalls, input, output>>

\* the outcomes the search endpoint can give: without an api key no result
SearchOutcomesNow ==
  IF env.TMDB_API_KEY THEN SearchOutcomes
  ELSE {o \in SearchOutcomes : o.kind \in {"throw", "none"}}

\* a searchTMDB that would send the search again after a failure
afterSearch_retry(l, outcome) ==
  IF outcome.kind = "found"
  THEN [l EXCEPT !.st = "details",
                 !.data = IF variant = "part_000" THEN makeTmdbData(outcome.result)
                          ELSE makeTmdbData_addon(outcome.result, undefined)]
  ELSE [l EXCEPT !.st = "wait"]

\* a lookup's state after the await of the search fetch (part_000 lines
\* 108-151, addon.js lines 33-60)
afterSearch(l, outcome) ==
  IF outcome.kind = "found"
  THEN [l EXCEPT !.st = "details",
                 !.data = IF variant = "part_000" THEN makeTmdbData(outcome.result)
                          ELSE makeTmdbData_addon(outcome.result, undefined)]
  ELSE [l EXCEPT !.st = "done", !.data = nullObj, !.at = now,
                 !.wrote = (outcome.kind = "none" /\ variant = "part_000")]

\* the handler of request r after its lookups and the cache have changed
afterLookup(r, updated, cache, calls) ==
  \E settled \in {settle(updated, batchOf(req[r]), cache, now)} :
  \E rec \in {req[r]} :
    /\ tmdbCache' = cache
    /\ tmdbCalls' = countStarted(calls, updated, settled, 1)
    /\ req' = [req EXCEPT ![r] = resume(rec, settled)]

\* the search fetch of lookup i of request r returns or fails
SearchReply(r, i, outcome) ==
  /\ req[r].pc = "enrich"
  /\ i \in 1..Len(req[r].lookups)
  /\ req[r].lookups[i].st = "search"
  /\ outcome \in SearchOutcomesNow
  /\ \E l \in {afterSearch(req[r].lookups[i], outcome)} :
     \E updated \in {[req[r].lookups EXCEPT ![i] = l]} :
     \E cache \in {IF outcome.kind = "none" /\ variant = "part_000"
                   THEN mapSet(tmdbCache, l.key, [timestamp |-> now, data |-> nullObj])
                   ELSE tmdbCache} :
     \E calls \in {IF outcome.kind = "found" THEN countCall(tmdbCalls, l.key) ELSE tmdbCalls} :
       afterLookup(r, updated, cache, calls)
  /\ UNCHANGED <<variant, env, now, aiRecommendationsCache, warm, modelCalls, input, output>>

\* a lookup's state after the await of the details fetch (part_000 lines
\* 128-142, addon.js lines 38-56)
afterDetails(l, outcome) ==
  IF outcome.kind = "throw" THEN [l EXCEPT !.st = "done", !.data = nullObj, !.at = now]
  ELSE [l EXCEPT !.st = "done", !.at = now, !.wrote = TRUE,
                 !.data.imdb_id = IF variant = "part_000"
                                  THEN (IF truthy(outcome.imdb_id) THEN outcome.imdb_id ELSE undefined)
                                  ELSE outcome.imdb_id]

\* the details fetch of lookup i of request r returns or fails
DetailsReply(r, i, outcome) ==
  /\ req[r].pc = "enrich"
  /\ i \in 1..Len(req[r].lookups)
  /\ req[r].lookups[i].st = "details"
  /\ \E l \in {afterDetails(req[r].lookups[i], outcome)} :
     \E updated \in {[req[r].lookups EXCEPT ![i] = l]} :
     \E cache \in {IF outcome.kind = "throw" THEN tmdbCache
                   ELSE mapSet(tmdbCache, l.key, [timestamp |-> now, data |-> l.data])} :
     \E calls \in {tmdbCalls} :
       afterLookup(r, updated, cache, calls)
  /\ UNCHANGED <<variant, env, now, aiRecommendationsCache, warm, modelCalls, input, output>>

\* the single lookup of a meta handler call starts
metaLookup(r, rec, lookup) ==
  \E rec0 \in {[rec EXCEPT !.lookups = <<lookup>>]} :
  \E settled \in {settle(<<lookup>>, 1, tmdbCache, now)} :
    /\ req' = [req EXCEPT ![r] = resume(rec0, settled)]
    /\ tmdbCalls' = countStarted(tmdbCalls, <<lookup>>, settled, 1)

\* the host calls the meta handler of part_000: searchTMDB(id, type), no year
MetaCall(r, args) ==
  /\ variant = "part_000" /\ serviceUp
  /\ callable(r)
  /\ \E rec \in {[req[r] EXCEPT !.op = "meta", !.args = args]} :
     \E lookup \in {[ st |-> "wait", valid |-> TRUE,
                      item |-> [id |-> args.id, name |-> args.id, type |-> args.type,
                                year |-> undefined, description |-> undefined],
                      type |-> args.type,
                      key |-> tmdbCacheKey(args.id, args.type, undefined),
                      data |-> nullObj, hit |-> FALSE, at |-> 0 - 1, wrote |-> FALSE ]} :
       metaLookup(r, rec, lookup)
  /\ UNCHANGED <<variant, env, now, aiRecommendationsCache, tmdbCache, warm, modelCalls,
                 input, output>>

\* the host calls the meta handler of addon.js: id.startsWith is outside the
\* try block
MetaCall_addon(r, args) ==
  /\ variant = "addon" /\ serviceUp
  /\ callable(r)
  /\ \E rec \in {[req[r] EXCEPT !.op = "meta", !.args = args]} :
       IF IsNum(args.id)
       THEN req' = [req EXCEPT ![r] = raisedOut(rec)] /\ UNCHANGED tmdbCalls
       ELSE IF ~startsWith(args.id, <<"a","i","_">>)
       THEN req' = [req EXCEPT ![r] = returned(rec, nullObj)] /\ UNCHANGED tmdbCalls
       ELSE \E item \in {itemOfId_addon(args.id)} :
            \E lookup \in {newLookup(item, itemType_addon(item))} :
              metaLookup(r, rec, lookup)
  /\ UNCHANGED <<variant, env, now, aiRecommendationsCache, tmdbCache, warm, modelCalls,
                 input, output>>

\* time passes
Tick ==
  /\ now < MaxTime
  /\ now' = now + 1
  /\ UNCHANGED <<variant, env, aiRecommendationsCache, tmdbCache, req, warm, modelCalls,
                 tmdbCalls, input, output>>

NoInput == [kind |-> "none"]

\* the module has been loaded and no handler has run
Loaded ==
  /\ now = 0
  /\ aiRecommendationsCache = <<>>
  /\ tmdbCache = <<>>
  /\ req = [r \in Req |-> IdleReq]
  /\ warm = [q \in WarmQueries |-> 0]
  /\ modelCalls = <<>>
  /\ tmdbCalls = <<>>

Init ==
  /\ variant \in {"part_000", "addon"}
  /\ env \in [GEMINI_API_KEY : BOOLEAN, TMDB_API_KEY : BOOLEAN]
  /\ Loaded
  /\ input = NoInput
  /\ output = NoInput

Next ==
  \/ Tick
  \/ \E r \in Req, args \in CatalogArgs : CatalogCall(r, args)
  \/ \E r \in Req, args \in CatalogArgs : CatalogCall_addon(r, args)
  \/ \E r \in Req, outcome \in ModelOutcomes : ModelReply(r, outcome)
  \/ \E r \in Req, outcome \in ModelOutcomes_addon : ModelReply_addon(r, outcome)
  \/ \E q \in WarmQueries, outcome \in ModelOutcomes_addon : WarmReply_addon(q, outcome)
  \/ \E r \in Req, i \in 1..sliceLimit, outcome \in SearchOutcomes : SearchReply(r, i, outcome)
  \/ \E r \in Req, i \in 1..sliceLimit, outcome \in DetailsOutcomes : DetailsReply(r, i, outcome)
  \/ \E r \in Req, args \in MetaArgs : MetaCall(r, args)
  \/ \E r \in Req, args \in MetaArgs : MetaCall_addon(r, args)

Spec == Init /\ [][Next]_vars

(***************************************************************************)
(* Claims about the handlers (specification Spec)                          *)
(***************************************************************************)

\* the search text of a catalog request is a string
hasSearchText(rec) ==
  /\ rec.op = "catalog"
  /\ rec.args.extra \notin {undefinedObj, nullObj}
  /\ ~IsNum(rec.args.extra.search)
  /\ rec.args.extra.search # undefined

\* the keyword intent as the loaded file computes it
keywordIntent(q) ==
  IF variant = "part_000" THEN determineIntentFromKeywords(q)
  ELSE determineIntentFromKeywords_addon(q)

\* C1 (as amended): a call of getAIRecommendations that finds, under its
\* (query, type), an entry written less than AI_CACHE_DURATION ago issues no
\* model call; a call that finds an entry written AI_CACHE_DURATION ago or
\* earlier issues exactly one new model call.
C1_CacheWindow ==
  [][\A r \in Req :
       ( /\ req[r].pc = "idle"
         /\ req'[r].fetchAt >= 0
         /\ req'[r].key \in DOMAIN aiRecommendationsCache )
       => IF now - aiRecommendationsCache[req'[r].key].timestamp < AI_CACHE_DURATION
          THEN ~req'[r].issued /\ modelCalls' = modelCalls
          ELSE /\ req'[r].issued
               /\ modelCalls' = [modelCalls EXCEPT ![req'[r].key] = @ + 1]]_vars

\* a second call was served from the entry the first call wrote
C1_Witness ==
  \E r, s \in Req :
    /\ r < s
    /\ req[r].issued
    /\ req[s].fetchAt >= 0
    /\ req[s].key = req[r].key
    /\ req[s].key \in DOMAIN aiRecommendationsCache
    /\ ~req[s].issued

\* C1 as stated: of two calls with the same (query, type) made less than the
\* TTL apart, only the first issues a model call.
C1_OneCallPerWindow ==
  \A r, s \in Req :
    ( /\ r < s
      /\ req[r].issued
      /\ req[s].fetchAt >= 0
      /\ req[s].key = req[r].key
      /\ req[s].fetchAt - req[r].fetchAt < AI_CACHE_DURATION )
    => ~req[s].issued

\* C2 as stated: a catalog request whose keyword intent is decisive and
\* differs from the requested type has returned {metas: []} and has issued
\* no model call.
C2_MismatchIssuesNoModelCall ==
  \A r \in Req :
    ( /\ hasSearchText(req[r])
      /\ keywordIntent(req[r].args.extra.search) \in {movie, series}
      /\ keywordIntent(req[r].args.extra.search) # req[r].args.type )
    => /\ ~req[r].issued
       /\ req[r].pc = "done"
       /\ req[r].result = [raised |-> FALSE, value |-> Array(<<>>)]

\* C4 as stated: no handler invocation ends in a rejected promise; the catalog
\* handler returns a metas array and the meta handler a meta or null.
C4_NothingEscapes ==
  \A r \in Req :
    req[r].pc = "done" =>
      /\ ~req[r].result.raised
      /\ req[r].op = "catalog" => isArray(req[r].result.value)
      /\ req[r].op = "meta" => req[r].result.value # undefinedObj

\* a metadata record that has a poster and an external id
resolvedRecord(d) ==
  /\ d # nullObj
  /\ d.poster \notin {undefined, null, <<>>}
  /\ d.imdb_id \notin {undefined, null, <<>>}

\* the lookups of a request whose record is resolved, in order
keptLookups(rec) == SelectSeq(rec.lookups, LAMBDA l : l.valid /\ resolvedRecord(l.data))

\* C5: the metas of a catalog request are, in order, the recommendations
\* whose metadata record is present with a poster and an imdb_id; each has a
\* non-null poster and the record's imdb_id as id, not the ai_ slug.
C5_MetasAreResolved ==
  \A r \in Req :
    (req[r].op = "catalog" /\ req[r].pc = "done" /\ ~req[r].result.raised) =>
      LET metas == req[r].result.value.array
          kept  == keptLookups(req[r])
      IN  /\ Len(metas) = Len(kept)
          /\ \A i \in 1..Len(metas) :
               /\ metas[i].poster \notin {undefined, null, <<>>}
               /\ metas[i].id = kept[i].data.imdb_id
               /\ metas[i].id # kept[i].item.id
               /\ ~startsWith(metas[i].id, <<"a","i","_">>)

\* one catalog request returned an item, and one dropped a recommendation
\* whose record has an imdb_id and no poster
C5_Witness ==
  /\ \E r \in Req :
       /\ req[r].op = "catalog" /\ req[r].pc = "done"
       /\ isArray(req[r].result.value)
       /\ Len(req[r].result.value.array) = 1
  /\ \E r \in Req :
       /\ req[r].op = "catalog" /\ req[r].pc = "done"
       /\ req[r].result.value = Array(<<>>)
       /\ Len(req[r].lookups) = 1
       /\ req[r].lookups[1].data # nullObj
       /\ req[r].lookups[1].data.poster = null
       /\ req[r].lookups[1].data.imdb_id = imdbId

\* C6 as stated: an item returned by the meta handler has a poster and an
\* external id.
C6_LookupItemsAreResolved ==
  \A r \in Req :
    (req[r].op = "meta" /\ req[r].pc = "done" /\ ~req[r].result.raised
       /\ req[r].result.value # nullObj) =>
      /\ req[r].result.value.poster \notin {undefined, null, <<>>}
      /\ req[r].result.value.id \notin {undefined, null, <<>>}

(***************************************************************************)
(* The catalog handler of part_000 over many queries (SpecIntent)          *)
(***************************************************************************)

\* words in one query
MaxWords == 2

QueryWords ==
  { <<"t","v">>,
    <<"S","h","o","w">>,
    <<"S","E","R","I","E","S">>,
    <<"a","n","i","m","e">>,
    <<"f","i","l","m">>,
    <<"M","o","v","i","e","s">>,
    <<"n","o","i","r">>,
    <<"d","o","c","u","s","e","r","i","e","s">>,
    <<"d","o","c","u","m","e","n","t","a","r","y">>,
    <<"h","e","a","t">> }

\* the queries: up to MaxWords words with one space between them
Queries ==
  {join(ws, <<" ">>) : ws \in UNION {[1..n -> QueryWords] : n \in 1..MaxWords}}

BothKeys == [GEMINI_API_KEY |-> TRUE, TMDB_API_KEY |-> TRUE]

IntentInit ==
  /\ variant = "part_000"
  /\ env = BothKeys
  /\ Loaded
  /\ input \in [type : Types, extra : {ExtraOf(q) : q \in Queries}]
  /\ output = NoInput

\* the host calls the catalog handler with the chosen arguments
IntentNext == CatalogCall(1, input)

SpecIntent == IntentInit /\ [][IntentNext]_vars

\* the lowercased query contains a series keyword and no movie keyword
seriesOnly(q) ==
  /\ \E k \in seriesKeywords : includes(toLowerCase(q), k)
  /\ ~\E k \in movieKeywords : includes(toLowerCase(q), k)

\* C3: for a query with at least one series keyword and no movie keyword,
\* the catalog handler called with type movie returns {metas: []}.
C3_SeriesOnlyQueryEmptyForMovie ==
  \A r \in Req :
    ( /\ hasSearchText(req[r])
      /\ req[r].args.type = movie
      /\ seriesOnly(req[r].args.extra.search) )
    => /\ req[r].pc = "done"
       /\ req[r].result = [raised |-> FALSE, value |-> Array(<<>>)]

\* the same of the catalog handler of addon.js, an invariant of Spec: the
\* answer is {metas: []} too, given after the model call instead of before it
seriesOnlyEmptyForMovie_addon ==
  \A r \in Req :
    ( /\ variant = "addon" /\ req[r].pc = "done"
      /\ hasSearchText(req[r])
      /\ req[r].args.type = movie
      /\ determineIntentFromKeywords_addon(req[r].args.extra.search) = series )
    => req[r].result = [raised |-> FALSE, value |-> Array(<<>>)]

\* the handler has answered a movie request whose query has a series keyword
\* in upper case next to a word that is no keyword
C3_Witness ==
  /\ req[1].pc = "done"
  /\ req[1].args.type = movie
  /\ req[1].args.extra.search = <<"n","o","i","r"," ","S","E","R","I","E","S">>
  /\ req[1].result.value = Array(<<>>)

(***************************************************************************)
(* toStremioMeta for two platforms (SpecShape)                             *)
(***************************************************************************)

\* a text of n characters
LongText(n) == [i \in 1..n |-> "x"]

ShapeItems ==
  [ id          : {<<"a","i","_","m","o","v","i","e","_","a","b">>, <<"a","i","_","s","e","r","i","e","s","_","a","b">>},
    name        : {N_Ab, <<>>},
    type        : {undefined, series},
    year        : {Num(1995), undefined},
    description : {undefined, <<"d">>, LongText(DescriptionLimit + 1)} ]

ShapeRecords ==
  {nullObj} \cup
  [ poster   : {null, PosterBase \o <<"/","p",".","j","p","g">>},
    backdrop : {null},
    genres   : {<<>>, <<28, 1>>},
    overview : {<<>>, <<"o">>, LongText(DescriptionLimit), LongText(DescriptionLimit + 1)},
    tmdb_id  : {949},
    title    : {undefined},
    release_date : {undefined},
    imdb_id  : {undefined, imdbId} ]

ShapeInit ==
  /\ variant \in {"part_000", "addon"}
  /\ env = BothKeys
  /\ Loaded
  /\ input \in [kind : {"shape"}, item : ShapeItems, data : ShapeRecords]
  /\ output = NoInput

\* toStremioMeta(item, platform) when searchTMDB resolves to data
toStremioMetaWith(item, data, platform) ==
  metaOfLookup(
    [newLookup(item, IF variant = "part_000" THEN itemType(item) ELSE itemType_addon(item))
       EXCEPT !.data = data],
    platform)

\* the same item and record are shaped for android-tv and for platform p
Shape(p) ==
  /\ input.kind = "shape"
  /\ output = NoInput
  /\ output' = [ kind |-> "shape", platform |-> p,
                 tv    |-> toStremioMetaWith(input.item, input.data, androidTv),
                 other |-> toStremioMetaWith(input.item, input.data, p) ]
  /\ UNCHANGED <<mainVars, input>>

ShapeNext == \E p \in {unknown, mobile, desktop} : Shape(p)

SpecShape == ShapeInit /\ [][ShapeNext]_vars

\* two poster URLs are the same, or differ in one /w500/ that is /w342/
sameButToken(tv, other) ==
  \/ tv = other
  \/ \E i \in 1..Len(other) :
       /\ SubSeq(other, i, i + 5) = <<"/","w","5","0","0","/">>
       /\ tv = SubSeq(other, 1, i - 1) \o <<"/","w","3","4","2","/">>
                 \o SubSeq(other, i + 6, Len(other))

\* C7: shaping for android-tv and for another platform gives both null or
\* both an item; two items agree on id, type, name, year, background,
\* posterShape and genres, the android-tv description is the first (at most
\* 200) characters of the other, and the posters differ at most in the
\* resolution token.
C7_PlatformChangesPresentationOnly ==
  output.kind = "shape" =>
    LET tv == output.tv
        o  == output.other
    IN  /\ (tv = nullObj) <=> (o = nullObj)
        /\ tv # nullObj =>
             /\ tv.id = o.id /\ tv.type = o.type /\ tv.name = o.name /\ tv.year = o.year
             /\ tv.background = o.background /\ tv.posterShape = o.posterShape
             /\ tv.genres = o.genres
             /\ Len(tv.description) <= 200
             /\ Len(tv.description) <= Len(o.description)
             /\ tv.description = SubSeq(o.description, 1, Len(tv.description))
             /\ Len(o.description) <= 200 => tv.description = o.description
             /\ sameButToken(tv.poster, o.poster)

\* an item with an overview of more than 200 characters has been shaped
C7_Witness ==
  /\ output.kind = "shape"
  /\ output.tv # nullObj
  /\ Len(output.other.description) > 200
  /\ Len(output.tv.description) = 200
  /\ output.tv.poster # output.other.poster

(***************************************************************************)
(* The normalizers applied to reply texts (SpecNorm)                       *)
(***************************************************************************)

\* lines in one reply text
MaxLines == 2

\* rows inside one fenced reply
MaxRows == 2

LineKinds ==
  { HeaderLine, Fence, FenceCsv, <<>>, JunkLine, RowFull, RowPadded, RowShort,
    RowBadYear, RowNoName, RowNoYear, RowWrongCase, RowSeries }

\* the reply texts: up to MaxLines lines with a line feed between them
ReplyTexts ==
  {join(ls, <<"\n">>) : ls \in UNION {[1..n -> LineKinds] : n \in 0..MaxLines}}

\* a valid row, field by field, with the year and the slug it stands for
RowSpecs ==
  { [ name |-> N_Ab, slug |-> <<"a","b">>, yearText |-> <<"1","9","9","5">>,
      year |-> 1995, description |-> d, relevance |-> <<"r">> ] : d \in {<<"d">>, <<>>} }
  \cup
  { [ name |-> N_bc, slug |-> <<"b","_","c">>, yearText |-> <<"2","0","2","3">>,
      year |-> 2023, description |-> d, relevance |-> <<"r">> ] : d \in {<<"d">>, <<>>} }

\* a JSON item with neither title nor name
DocNoName ==
  [ intent |-> undefined,
    recommendations |->
      [ movies |-> Array(<<JsonItem(undefined, undefined, Num(1995))>>),
        series |-> Array(<<>>) ] ]

\* a reply whose movies value is no array, and one whose list holds null
DocNotArray ==
  [intent |-> movie, recommendations |-> [movies |-> notArray, series |-> undefinedObj]]

DocNullItem ==
  [intent |-> undefined, recommendations |-> [movies |-> Array(<<nullObj>>), series |-> Array(<<>>)]]

\* a JSON item that carries the "type" field the prompt of addon.js asks for
\* (line 191)
JsonItemTyped(type, name, year) ==
  [ type |-> type, title |-> undefined, name |-> name, year |-> year,
    description |-> <<"d">>, relevance |-> <<"r">> ]

\* a reply whose movies list holds an item the model declared a series
DocWrongType ==
  [ intent |-> undefined,
    recommendations |->
      [ movies |-> Array(<<JsonItemTyped(series, N_Ab, Num(1995)),
                           JsonItemTyped(movie, N_bc, Num(2023))>>),
        series |-> Array(<<>>) ] ]

\* a reply whose movies have names that differ only in letter case
DocSameName ==
  [ intent |-> undefined,
    recommendations |->
      [ movies |-> Array(<<JsonItem(undefined, N_Ab, Num(1995)),
                           JsonItem(undefined, <<"A","B">>, Num(1995))>>),
        series |-> Array(<<>>) ] ]

\* what JSON.parse of the sanitized reply can give addon.js; for a text that
\* strict parsing rejects, doc.repaired is what JSON.parse gives for the text
\* rewritten by lines 290-297 and doc.lenient what JSON5.parse gives for it
\* (single-quoted values are repaired; a year written +1995 is JSON5 only)
ParseOutcomes_addon ==
  ModelOutcomes_addon \cup
  { [ok |-> TRUE, doc |-> [strict |-> d]] :
      d \in {nullObj, DocNoName, DocNotArray, DocNullItem, DocWrongType, DocSameName} }
  \cup
  { [ok |-> TRUE, doc |-> [strict |-> SyntaxError, repaired |-> d[1], lenient |-> d[2]]] :
      d \in {<<DocBoth, DocBoth>>, <<SyntaxError, DocBoth>>, <<SyntaxError, SyntaxError>>} }

NormInputs ==
  [kind : {"text"}, ok : BOOLEAN, text : ReplyTexts, type : Types]
  \cup [kind : {"doc"}, outcome : ParseOutcomes_addon, query : {W_noir, W_tv, W_film}]
  \cup [ kind : {"fenced"}, csv : BOOLEAN, header : BOOLEAN, type : Types,
         rows : UNION {[1..n -> RowSpecs] : n \in 0..MaxRows} ]

NormInit ==
  /\ input \in NormInputs
  /\ variant = IF input.kind = "doc" THEN "addon" ELSE "part_000"
  /\ env = BothKeys
  /\ Loaded
  /\ output = NoInput

\* the requested list of a reply text: getAIRecommendations of part_000 after
\* the await, and sanitizeCSVString
Normalize ==
  /\ input.kind = "text"
  /\ output = NoInput
  /\ output' = [ kind   |-> "normalized",
                 result |-> getAIRecommendationsResult([ok |-> input.ok, text |-> input.text],
                                                       input.type),
                 csv    |-> sanitizeCSVString(input.text) ]
  /\ UNCHANGED <<mainVars, input>>

\* getAIRecommendations of addon.js after the await
Normalize_addon ==
  /\ input.kind = "doc"
  /\ output = NoInput
  /\ output' = [ kind   |-> "normalized_addon",
                 result |-> getAIRecommendationsResult_addon(input.outcome, input.query) ]
  /\ UNCHANGED <<mainVars, input>>

\* a field written into a row: an absent value leaves the field empty
fieldText(v) == IF v = undefined THEN <<>> ELSE v

\* the canonical row of an item: type|name|year|description|relevance
canonicalRow(item) ==
  join(<<item.type, item.name, yearToString(item.year), fieldText(item.description),
         fieldText(item.relevance)>>, <<"|">>)

\* the canonical text of a list: the header line, then one row per item
canonicalText(items) ==
  join(<<HeaderLine>> \o [i \in 1..Len(items) |-> canonicalRow(items[i])], <<"\n">>)

\* the list a normalizer produced is written as canonical rows and normalized
\* again
Renormalize ==
  /\ output.kind = "normalized"
  /\ input.ok
  /\ \E first \in {listOf(output.result.data, input.type).array} :
     \E firstCsv \in {typeList(output.csv, input.type).array} :
       output' = [ kind      |-> "renormalized",
                   first     |-> first,
                   second    |-> typeList(parseReply(canonicalText(first), input.type),
                                          input.type).array,
                   firstCsv  |-> firstCsv,
                   secondCsv |-> typeList(sanitizeCSVString(canonicalText(firstCsv)),
                                          input.type).array ]
  /\ UNCHANGED <<mainVars, input>>

\* the row a RowSpec is written as
rowText(spec, type) ==
  join(<<type, spec.name, spec.yearText, spec.description, spec.relevance>>, <<"|">>)

\* a fence on lines of its own around the rows, with or without the header
fencedText(in) ==
  join(<<IF in.csv THEN FenceCsv ELSE Fence>>
         \o (IF in.header THEN <<HeaderLine>> ELSE <<>>)
         \o [i \in 1..Len(in.rows) |-> rowText(in.rows[i], in.type)]
         \o <<Fence>>,
       <<"\n">>)

\* a fenced reply is normalized
NormalizeFenced ==
  /\ input.kind = "fenced"
  /\ output = NoInput
  /\ \E text \in {fencedText(input)} :
       output' = [ kind   |-> "unfenced",
                   result |-> typeList(parseReply(text, input.type), input.type),
                   csv    |-> typeList(sanitizeCSVString(text), input.type) ]
  /\ UNCHANGED <<mainVars, input>>

NormNext ==
  \/ Normalize
  \/ Normalize_addon
  \/ Renormalize
  \/ NormalizeFenced

SpecNorm == NormInit /\ [][NormNext]_vars

\* the text has no field separator: no strategy can parse it
noSeparator(text) == \A i \in 1..Len(text) : text[i] # "|"

\* C8: normalization never raises to its caller; the list of the requested
\* type (in addon.js: of every type the keyword intent allows) is an array,
\* and it is empty when the call failed or the text has no row at all.
C8_NormalizerFailSoft ==
  /\ output.kind = "normalized" =>
       /\ ~output.result.threw
       /\ isArray(listOf(output.result.data, input.type))
       /\ isArray(typeList(output.csv, input.type))
       /\ (~input.ok \/ noSeparator(input.text)) =>
            listOf(output.result.data, input.type) = Array(<<>>)
       /\ noSeparator(input.text) => typeList(output.csv, input.type) = Array(<<>>)
  /\ output.kind = "normalized_addon" =>
       /\ ~output.result.threw
       /\ \A t \in Types :
            determineIntentFromKeywords_addon(input.query) \in {t, ambiguous} =>
              /\ isArray(listOf(output.result.data, t))
              /\ (~input.outcome.ok \/ input.outcome.doc.strict = SyntaxError) =>
                   listOf(output.result.data, t) = Array(<<>>)

\* a reply that is no row at all has been normalized to the empty list
C8_Witness ==
  /\ output.kind = "normalized"
  /\ input.ok
  /\ input.text = join(<<JunkLine, Fence>>, <<"\n">>)
  /\ listOf(output.result.data, input.type) = Array(<<>>)

\* the second item is the first one, but for an absent description or relevance
\* read back as the empty string
sameAfterRoundTrip(a, b) ==
  /\ a.name = b.name /\ a.year = b.year /\ a.type = b.type /\ a.id = b.id
  /\ b.description = fieldText(a.description)
  /\ b.relevance = fieldText(a.relevance)

sameListAfterRoundTrip(first, second) ==
  /\ Len(first) = Len(second)
  /\ \A i \in 1..Len(first) : sameAfterRoundTrip(first[i], second[i])

\* what the round trip does keep: the same items in the same order, equal in
\* name, year, type and id, and in description and relevance when the row had
\* them
roundTripUpToAbsentFields ==
  output.kind = "renormalized" =>
    /\ sameListAfterRoundTrip(output.first, output.second)
    /\ sameListAfterRoundTrip(output.firstCsv, output.secondCsv)

\* C9 as stated: the list normalized again equals the first list.
C9_RoundTripEqual ==
  output.kind = "renormalized" =>
    /\ output.second = output.first
    /\ output.secondCsv = output.firstCsv

\* the items the rows of a fenced reply stand for, in row order
expectedItems(in) ==
  [i \in 1..Len(in.rows) |->
     [ name        |-> in.rows[i].name,
       year        |-> Num(in.rows[i].year),
       type        |-> in.type,
       description |-> in.rows[i].description,
       relevance   |-> in.rows[i].relevance,
       id          |-> <<"a","i","_">> \o in.type \o <<"_">> \o in.rows[i].slug ]]

\* C10: a fenced reply of k valid rows of the requested type is normalized to
\* exactly those k recommendations, in row order (by sanitizeCSVString when
\* the header line is there for it to skip).
C10_FencedRowsAllParsed ==
  output.kind = "unfenced" =>
    /\ output.result = Array(expectedItems(input))
    /\ input.header => output.csv = Array(expectedItems(input))

\* a fence around two rows and no header has been normalized to two items
C10_Witness ==
  /\ output.kind = "unfenced"
  /\ ~input.header
  /\ Len(input.rows) = 2
  /\ Len(output.result.array) = 2
  /\ output.result.array[1].name = input.rows[1].name

(***************************************************************************)
(* One catalog request over longer lists (SpecFan)                         *)
(***************************************************************************)

RowLater == <<"m","o","v","i","e","|","b"," ","c","|","2","0","2","3","|","d","|","r">>

\* a reply whose rows are in ascending order of year
ReplyAscending == HeaderLine \o <<"\n">> \o RowFull \o <<"\n">> \o RowLater

FanReplies == {[ok |-> TRUE, text |-> ReplyAscending]}

\* a JSON reply whose movies are in ascending order of year
DocAscending ==
  [ intent |-> undefined,
    recommendations |->
      [ movies |-> Array(<<JsonItem(undefined, N_Ab, Num(1995)),
                           JsonItem(undefined, N_bc, Num(2023))>>),
        series |-> Array(<<>>) ] ]

\* a JSON reply with one movie more than the larger resultLimit
DocMany ==
  [ intent |-> undefined,
    recommendations |->
      [ movies |-> Array([i \in 1..(resultLimitDefault + 1) |->
                            JsonItem(undefined, N_Ab, Num(1995))]),
        series |-> Array(<<>>) ] ]

FanDocs == {[ok |-> TRUE, doc |-> [strict |-> d]] : d \in {DocAscending, DocMany}}

\* a search from an unnamed platform and one from android-tv
FanArgs ==
  [ type : {movie},
    extra : {ExtraOf(W_noir), [ExtraOf(W_noir) EXCEPT !.headerPlatform = androidTv]} ]

\* every lookup finds a record with a poster and an imdb_id
FanSearchOutcomes == {[kind |-> "found", result |-> TmdbResult(<<"/","p",".","j","p","g">>)]}

FanDetailsOutcomes == {[kind |-> "ids", imdb_id |-> imdbId]}

FanInit ==
  /\ variant \in {"part_000", "addon"}
  /\ env = BothKeys
  /\ Loaded
  /\ input = NoInput
  /\ output = NoInput

\* one catalog request, its model call and its lookups in every order
FanNext ==
  \/ \E args \in FanArgs : CatalogCall(1, args)
  \/ \E args \in FanArgs : CatalogCall_addon(1, args)
  \/ \E outcome \in FanReplies : ModelReply(1, outcome)
  \/ \E outcome \in FanDocs : ModelReply_addon(1, outcome)
  \/ \E i \in 1..(resultLimitDefault + 1), outcome \in FanSearchOutcomes : SearchReply(1, i, outcome)
  \/ \E i \in 1..(resultLimitDefault + 1), outcome \in FanDetailsOutcomes : DetailsReply(1, i, outcome)

SpecFan == FanInit /\ [][FanNext]_vars

\* the metas a catalog request has returned
metasOfRequest(rec) == rec.result.value.array

answered(rec) == rec.op = "catalog" /\ rec.pc = "done" /\ ~rec.result.raised

\* C11 as stated: the metas a catalog request returns are in non-increasing
\* order of year, whatever order its lookups completed in.
C11_MetasByYearDescending ==
  \A r \in Req :
    answered(req[r]) =>
      \A i, j \in 1..Len(metasOfRequest(req[r])) :
        i < j => metasOfRequest(req[r])[i].year >= metasOfRequest(req[r])[j].year

\* what the handler of part_000 does keep: its metas are in non-increasing
\* order of year
metasByYearDescending_part_000 ==
  variant = "part_000" => C11_MetasByYearDescending

\* the request comes from the constrained platform, as the loaded file decides it
constrained(rec) ==
  IF variant = "addon" THEN isAndroidTV_addon(rec.args.extra) ELSE rec.platform = androidTv

\* the cap the loaded file has for the constrained platform and for the others:
\* part_000 has the one .slice(0, 10)
capConstrained == IF variant = "addon" THEN resultLimitTV ELSE sliceLimit

capOther == IF variant = "addon" THEN resultLimitDefault ELSE sliceLimit

capOf(rec) == IF constrained(rec) THEN capConstrained ELSE capOther

\* no more metas than the cap, and the cap exactly when more items survived
withinCap(rec) ==
  /\ Len(metasOfRequest(rec)) <= capOf(rec)
  /\ Len(keptLookups(rec)) > capOf(rec) => Len(metasOfRequest(rec)) = capOf(rec)

\* C12 as stated: a catalog request returns no more items than the cap of its
\* platform, exactly the cap when more items survived enrichment, and the cap
\* of the constrained platform is the smaller one.
C12_TruncatedToPlatformCap ==
  \A r \in Req :
    answered(req[r]) => (withinCap(req[r]) /\ capConstrained < capOther)

\* the first half of C12 alone: the number of metas against the cap
neverMoreThanCap == \A r \in Req : answered(req[r]) => withinCap(req[r])

\* what addon.js does keep: a request from android-tv gets at most
\* resultLimitTV metas, and exactly that many when more survived
constrainedWithinCap_addon ==
  \A r \in Req :
    (variant = "addon" /\ answered(req[r]) /\ constrained(req[r])) => withinCap(req[r])

\* a request from android-tv has been cut to resultLimitTV metas
constrainedWasCut_addon ==
  \E r \in Req :
    /\ variant = "addon" /\ answered(req[r]) /\ constrained(req[r])
    /\ Len(keptLookups(req[r])) > resultLimitTV
    /\ Len(metasOfRequest(req[r])) = resultLimitTV

(***************************************************************************)
(* Claims about the metadata cache (specification Spec)                    *)
(***************************************************************************)

\* lookup j of request q sends its search request in this step
startsSearch(q, j) ==
  /\ j \in 1..Len(req'[q].lookups)
  /\ req'[q].lookups[j].st = "search"
  /\ (j \notin 1..Len(req[q].lookups) \/ req[q].lookups[j].st = "wait")

\* searchTMDB came back with null from the database, less than CACHE_DURATION ago
recentNull(l) ==
  /\ l.valid /\ l.st = "done" /\ ~l.hit
  /\ l.data = nullObj
  /\ now - l.at < CACHE_DURATION

\* C13 as stated: once a lookup has failed or found nothing, the null is in
\* the metadata cache under its key, and within the TTL no lookup of the same
\* key sends a search request.
C13_NullIsCached ==
  [][\A r \in Req : \A i \in 1..Len(req[r].lookups) :
       recentNull(req[r].lookups[i]) =>
         /\ req[r].lookups[i].key \in DOMAIN tmdbCache
         /\ \A q \in Req : \A j \in 1..Len(req'[q].lookups) :
              req'[q].lookups[j].key = req[r].lookups[i].key => ~startsSearch(q, j)]_vars

\* the lookups of key k that searchTMDB started without finding a fresh entry
missesOf(r, k) ==
  {i \in 1..Len(req[r].lookups) :
     /\ req[r].lookups[i].valid
     /\ req[r].lookups[i].key = k
     /\ req[r].lookups[i].st # "wait"
     /\ ~req[r].lookups[i].hit}

misses(k) == UNION {{<<r, i>> : i \in missesOf(r, k)} : r \in Req}

\* C14 as stated: within one window of CACHE_DURATION (here the first one) no
\* (title, type, year) has had more than two outbound database calls, whatever
\* the lookups of that key and their interleaving.
C14_TwoCallsPerKeyPerWindow ==
  now < CACHE_DURATION => \A k \in DOMAIN tmdbCalls : tmdbCalls[k] <= 2

\* C14 (as amended): the outbound database calls for a (title, type, year)
\* never exceed two (one search, one by-id detail lookup) for each lookup of
\* that key that found no fresh cache entry; lookups served from the cache add
\* none.
C14_TwoCallsPerMiss ==
  \A k \in DOMAIN tmdbCalls : tmdbCalls[k] <= 2 * Cardinality(misses(k))

\* two lookups of one key both missed, and each sent a search and a detail call
C14_Witness ==
  \E k \in DOMAIN tmdbCalls :
    /\ tmdbCalls[k] = 4
    /\ Cardinality(misses(k)) = 2
    /\ now < CACHE_DURATION

\* two lookups of one key in the same request both missed
C14_sameRequestTwice ==
  \E k \in DOMAIN tmdbCalls, r \in Req :
    /\ tmdbCalls[k] > 2
    /\ Cardinality(missesOf(r, k)) >= 2

(***************************************************************************)
(* Claims about startup (specification Spec)                               *)
(***************************************************************************)

\* C15 as stated: a handler has been called only in a service that holds both
\* credentials: with the model-service key or the media-database key absent
\* the service does not start, so no request is ever taken, and none is
\* answered with an empty result.
C15_NoServiceWithoutCredentials ==
  \A r \in Req : req[r].pc # "idle" => (env.GEMINI_API_KEY /\ env.TMDB_API_KEY)

\* part_000 does not start without the model-service key
noServiceWithoutModelKey_part_000 ==
  \A r \in Req : (variant = "part_000" /\ req[r].pc # "idle") => env.GEMINI_API_KEY

\* addon.js has answered a search with {metas: []} for want of a credential
emptyForMissingKey_addon ==
  \E r \in Req :
    /\ variant = "addon"
    /\ ~(env.GEMINI_API_KEY /\ env.TMDB_API_KEY)
    /\ hasSearchText(req[r])
    /\ req[r].pc = "done"
    /\ req[r].result = [raised |-> FALSE, value |-> Array(<<>>)]
    /\ req[r].fetchAt < 0

\* part_000 has taken a request without the media-database key
servedWithoutDatabaseKey_part_000 ==
  \E r \in Req : variant = "part_000" /\ ~env.TMDB_API_KEY /\ req[r].pc # "idle"

(***************************************************************************)
(* The intent classifier on its own (SpecClassify)                         *)
(***************************************************************************)

\* the query texts: the empty text and up to MaxWords words
ClassifyInputs == [kind : {"query"}, query : Queries \cup {<<>>}]

ClassifyInit ==
  /\ variant \in {"part_000", "addon"}
  /\ env = BothKeys
  /\ Loaded
  /\ input \in ClassifyInputs
  /\ output = NoInput

\* determineIntentFromKeywords(query) of part_000
Classify ==
  /\ variant = "part_000"
  /\ output = NoInput
  /\ output' = [kind |-> "intent", value |-> determineIntentFromKeywords(input.query)]
  /\ UNCHANGED <<mainVars, input>>

\* determineIntentFromKeywords(query) of addon.js
Classify_addon ==
  /\ variant = "addon"
  /\ output = NoInput
  /\ output' = [kind |-> "intent", value |-> determineIntentFromKeywords_addon(input.query)]
  /\ UNCHANGED <<mainVars, input>>

ClassifyNext == Classify \/ Classify_addon

SpecClassify == ClassifyInit /\ [][ClassifyNext]_vars

\* w occurs in text as a run of consecutive characters
occursIn(text, w) == \E i, j \in 1..Len(text) : SubSeq(text, i, j) = w

\* some keyword of the set occurs in the lowercased query
matches(query, keywordSet) ==
  \E w \in keywordSet : occursIn([i \in 1..Len(query) |-> LowerChar(query[i])], w)

\* C16: on every query text the classifier returns one of movie, series and
\* ambiguous: movie exactly when the lowercased query contains a movie keyword
\* and no series keyword, series exactly when it contains a series keyword and
\* no movie keyword, ambiguous exactly when both sets or neither set match.
C16_IntentByKeywordSets ==
  output.kind = "intent" =>
    LET m == matches(input.query,
                     IF variant = "part_000" THEN movieKeywords ELSE movieKeywords_addon)
        s == matches(input.query,
                     IF variant = "part_000" THEN seriesKeywords ELSE seriesKeywords_addon)
    IN  /\ output.value \in {movie, series, ambiguous}
        /\ output.value = movie <=> (m /\ ~s)
        /\ output.value = series <=> (s /\ ~m)
        /\ output.value = ambiguous <=> (m <=> s)

\* a query that matches both sets, in upper and lower case, was classified
C16_Witness ==
  /\ output.kind = "intent"
  /\ output.value = ambiguous
  /\ input.query # toLowerCase(input.query)
  /\ matches(input.query, movieKeywords_addon)
  /\ matches(input.query, seriesKeywords_addon)

(***************************************************************************)
(* Claims about the cache entries (specification SpecFan)                  *)
(***************************************************************************)

\* the entry under key k after the step is the entry before it, or it is what
\* getAIRecommendations writes for the reply a request was waiting for
recommendationEntryKept(k) ==
  \/ /\ k \in DOMAIN aiRecommendationsCache
     /\ aiRecommendationsCache'[k] = aiRecommendationsCache[k]
  \/ \E r \in Req, outcome \in FanReplies :
       /\ variant = "part_000"
       /\ req[r].pc = "model" /\ req[r].key = k
       /\ aiRecommendationsCache'[k] =
            [ timestamp |-> now,
              data |-> getAIRecommendationsResult(outcome, req[r].args.type).data ]
  \/ \E r \in Req, outcome \in FanDocs :
       /\ variant = "addon"
       /\ req[r].pc = "model" /\ req[r].key = k
       /\ aiRecommendationsCache'[k] =
            [ timestamp |-> now,
              data |-> getAIRecommendationsResult_addon(outcome, searchOf(req[r].args.extra)).data ]

\* the entry under key k after the step is the entry before it, or it is what
\* a lookup of k that was waiting for a reply has returned
metadataEntryKept(k) ==
  \/ /\ k \in DOMAIN tmdbCache
     /\ tmdbCache'[k] = tmdbCache[k]
  \/ \E r \in Req : \E i \in 1..Len(req[r].lookups) :
       /\ req[r].lookups[i].key = k
       /\ req[r].lookups[i].st \in {"search", "details"}
       /\ req'[r].lookups[i].st = "done"
       /\ tmdbCache'[k] = [timestamp |-> now, data |-> req'[r].lookups[i].data]

entriesKept ==
  /\ \A k \in DOMAIN aiRecommendationsCache' : recommendationEntryKept(k)
  /\ \A k \in DOMAIN tmdbCache' : metadataEntryKept(k)

\* C17 as stated: every step leaves each entry of the two caches as it was, or
\* replaces it by the value a later write to its key stores; no step, the
\* catalog handler's sort and truncation included, changes the value or the
\* order of a list that was written.
C17_EntriesImmutable == [][entriesKept]_vars

\* addon.js, which neither sorts nor truncates the list it received, keeps
\* its entries
entriesImmutable_addon == [][variant = "addon" => entriesKept]_vars

\* the metadata entries are kept in both files
metadataEntriesImmutable == [][\A k \in DOMAIN tmdbCache' : metadataEntryKept(k)]_vars

(***************************************************************************)
(* Claims about expiry (specification Spec)                                *)
(***************************************************************************)

\* request r reads the recommendation cache in this step
readsRecommendations(r) ==
  /\ req[r].pc = "idle"
  /\ req'[r].fetchAt >= 0
  /\ hasSearchText(req'[r])

\* lookup i of request r reaches searchTMDB, and so reads the metadata cache,
\* in this step; the writes of a step come before the reads of that step
readsMetadata(r, i) ==
  /\ req'[r].lookups[i].valid
  /\ req'[r].lookups[i].st # "wait"
  /\ (i \notin 1..Len(req[r].lookups) \/ req[r].lookups[i].st = "wait")

\* the reads of the recommendation cache: served only from an entry younger
\* than AI_CACHE_DURATION; an older entry is a miss and a model call is sent
recommendationExpiry ==
  \A r \in Req :
    readsRecommendations(r) =>
      /\ ~req'[r].issued =>
           /\ req'[r].key \in DOMAIN aiRecommendationsCache
           /\ now - aiRecommendationsCache[req'[r].key].timestamp < AI_CACHE_DURATION
      /\ ( /\ req'[r].key \in DOMAIN aiRecommendationsCache
           /\ now - aiRecommendationsCache[req'[r].key].timestamp >= AI_CACHE_DURATION )
         => /\ req'[r].issued
            /\ req'[r].pc = "model"
            /\ modelCalls'[req'[r].key] = modelCalls[req'[r].key] + 1

\* the reads of the metadata cache: served only from an entry younger than
\* CACHE_DURATION; an older entry is a miss and a search is sent
metadataExpiry ==
  \A r \in Req : \A i \in 1..Len(req'[r].lookups) :
    readsMetadata(r, i) =>
      /\ req'[r].lookups[i].hit =>
           /\ req'[r].lookups[i].key \in DOMAIN tmdbCache'
           /\ now - tmdbCache'[req'[r].lookups[i].key].timestamp < CACHE_DURATION
           /\ req'[r].lookups[i].data = tmdbCache'[req'[r].lookups[i].key].data
      /\ ( /\ req'[r].lookups[i].key \in DOMAIN tmdbCache'
           /\ now - tmdbCache'[req'[r].lookups[i].key].timestamp >= CACHE_DURATION )
         => /\ ~req'[r].lookups[i].hit
            /\ req'[r].lookups[i].st = "search"
            /\ tmdbCalls'[req'[r].lookups[i].key] > tmdbCalls[req'[r].lookups[i].key]

\* a write to either cache stores the time of the write, so the entry it
\* replaces, stale or not, is gone
writesAreFresh ==
  /\ \A k \in DOMAIN aiRecommendationsCache' :
       (k \notin DOMAIN aiRecommendationsCache
          \/ aiRecommendationsCache'[k] # aiRecommendationsCache[k])
       => aiRecommendationsCache'[k].timestamp = now
  /\ \A k \in DOMAIN tmdbCache' :
       (k \notin DOMAIN tmdbCache \/ tmdbCache'[k] # tmdbCache[k])
       => tmdbCache'[k].timestamp = now

\* C18: a value is served from either cache only if its entry was written less
\* than that cache's TTL ago (AI_CACHE_DURATION for recommendations,
\* CACHE_DURATION for metadata); a read that finds an entry of the TTL's age or
\* older is a miss that sends a fresh upstream call, and the write that
\* follows the call replaces the stale entry by one written now.
C18_LazyStrictExpiry ==
  [][recommendationExpiry /\ metadataExpiry /\ writesAreFresh]_vars

\* a lookup found an entry of its key that was CACHE_DURATION old, sent its
\* own calls, and its record has replaced the entry
C18_Witness ==
  \E r, q \in Req :
    \E i \in 1..Len(req[r].lookups), j \in 1..Len(req[q].lookups) :
      /\ req[r].lookups[i].valid /\ req[q].lookups[j].valid
      /\ req[r].lookups[i].key = req[q].lookups[j].key
      /\ req[r].lookups[i].st = "done" /\ ~req[r].lookups[i].hit
      /\ req[r].lookups[i].data # nullObj
      /\ req[q].lookups[j].st = "done" /\ ~req[q].lookups[j].hit
      /\ req[q].lookups[j].data # nullObj
      /\ req[q].lookups[j].at - req[r].lookups[i].at >= CACHE_DURATION
      /\ tmdbCalls[req[q].lookups[j].key] = 4
      /\ tmdbCache[req[q].lookups[j].key].timestamp = req[q].lookups[j].at

(***************************************************************************)
(* Claims about the normalized items (specification SpecNorm)              *)
(***************************************************************************)

\* the items of both lists of a recommendations object
itemsOf(recommendations) ==
  (IF isArray(recommendations.movies) THEN Range(recommendations.movies.array) ELSE {})
  \cup (IF isArray(recommendations.series) THEN Range(recommendations.series.array) ELSE {})

\* the items a normalization has produced: those getAIRecommendations returns
\* (and stores when it writes the cache) and those of sanitizeCSVString
normalizedItems ==
  IF output.kind = "normalized"
  THEN itemsOf(output.result.data.recommendations) \cup itemsOf(output.csv)
  ELSE IF output.kind = "normalized_addon"
  THEN itemsOf(output.result.data.recommendations)
  ELSE {}

hasName(item) == item.name \notin {undefined, null, <<>>}

\* the year is a number of four decimal digits
fourDigitYear(item) == IsNum(item.year) /\ item.year[2] \in 1000..9999

\* C19 as stated: every item a normalization produces has a non-empty name
\* and an integer year of four digits; a row with a missing field or with a
\* year that is no integer leaves no item.
C19_NameAndFourDigitYear ==
  \A item \in normalizedItems : hasName(item) /\ fourDigitYear(item)

\* what the row test of part_000 does give: a non-empty name
itemsHaveName_part_000 ==
  output.kind = "normalized" => \A item \in normalizedItems : hasName(item)

\* a row whose year text is no number has left an item, with the year NaN
yearNaNKept_part_000 ==
  /\ output.kind = "normalized"
  /\ \E item \in itemsOf(output.result.data.recommendations) : item.year = NaN

\* every entry of movies has type movie and every entry of series has type
\* series
typedByList(recommendations) ==
  /\ isArray(recommendations.movies)
       => \A item \in Range(recommendations.movies.array) : item.type = movie
  /\ isArray(recommendations.series)
       => \A item \in Range(recommendations.series.array) : item.type = series

\* the rows of a reply text whose type field is `type`
rowsOfType(text, type) ==
  LET lines == trimmedLines(text)
  IN  {i \in 1..Len(lines) : Field(trimmedFields(lines[i]), 1) = type}

\* the type a JSON item declares, when it declares one
declaredType(item) == IF "type" \in DOMAIN item THEN item.type ELSE undefined

\* the items of a JSON list that do not declare another type than `type`
itemsOfType(list, type) ==
  IF isArray(list)
  THEN {i \in 1..Len(list.array) : declaredType(list.array[i]) \in {type, undefined}}
  ELSE {}

\* the list of a type in a recommendations object, empty when there is none
entries(recommendations, type) ==
  IF isArray(typeList(recommendations, type))
  THEN typeList(recommendations, type).array ELSE <<>>

\* the list of a type in what JSON.parse gave, when it gave such a list
parsedList(doc, type) ==
  IF "recommendations" \in DOMAIN doc /\ "movies" \in DOMAIN doc.recommendations
  THEN typeList(doc.recommendations, type)
  ELSE undefinedObj

\* part_000: only the rows of the type of a list leave an entry in it
wrongTypeDropped_part_000 ==
  output.kind = "normalized" =>
    /\ typedByList(output.result.data.recommendations)
    /\ typedByList(output.csv)
    /\ \A type \in Types :
         /\ Len(entries(output.result.data.recommendations, type))
              <= Cardinality(rowsOfType(input.text, type))
         /\ Len(entries(output.csv, type)) <= Cardinality(rowsOfType(input.text, type))
    /\ \A type \in Types \ {input.type} :
         entries(output.result.data.recommendations, type) = <<>>

\* addon.js: only the items of the type of a list leave an entry in it
wrongTypeDropped_addon ==
  output.kind = "normalized_addon" =>
    /\ typedByList(output.result.data.recommendations)
    /\ \A type \in Types :
         Len(entries(output.result.data.recommendations, type))
           <= Cardinality(itemsOfType(parsedList(input.outcome.doc.strict, type), type))

\* C20 as stated: every entry of recommendations.movies has type movie and
\* every entry of recommendations.series has type series, and a row or item
\* whose type differs from the list being populated, or from the requested
\* type, leaves no entry.
C20_WrongTypeDropped == wrongTypeDropped_part_000 /\ wrongTypeDropped_addon

\* part_000 has dropped a row of the other type
wrongTypeRowDropped_part_000 ==
  /\ output.kind = "normalized"
  /\ output.result.write
  /\ \E type \in Types \ {input.type} : rowsOfType(input.text, type) # {}

\* addon.js relabels: every entry carries the type of its list
relabelled_addon ==
  output.kind = "normalized_addon" => typedByList(output.result.data.recommendations)

(***************************************************************************)
(* Claims about the synthesized ids (specification SpecNorm)               *)
(***************************************************************************)

\* the lists getAIRecommendations has returned
normalizedLists ==
  IF output.kind \in {"normalized", "normalized_addon"}
  THEN {entries(output.result.data.recommendations, type) : type \in Types}
  ELSE {}

\* no two entries of the list have the same id
distinctIds(list) == \A i, j \in 1..Len(list) : i # j => list[i].id # list[j].id

\* the rows of a reply text that getAIRecommendations of part_000 accepts
acceptedRows(text, type) ==
  LET lines == trimmedLines(trim(text))
  IN  {i \in 1..Len(lines) : keepLine(lines[i]) /\ acceptRow(trimmedFields(lines[i]), type)}

\* every accepted row, and every item of a JSON list that was stored, has an
\* entry of its own
duplicatesRetained ==
  /\ (output.kind = "normalized" /\ output.result.write) =>
       Len(entries(output.result.data.recommendations, input.type))
         = Cardinality(acceptedRows(input.text, input.type))
  /\ (output.kind = "normalized_addon" /\ output.result.write) =>
       \A type \in Types :
         isArray(typeList(output.result.data.recommendations, type)) =>
           Len(entries(output.result.data.recommendations, type))
             = Len(entries(input.outcome.doc.strict.recommendations, type))

\* C21 as stated: in one response no two recommendations have the same id,
\* also when two rows carry the same name or names that differ only in letter
\* case or in characters that are no letters or digits; such rows are kept as
\* separate entries.
C21_IdsDistinctInOneResponse ==
  /\ \A list \in normalizedLists : distinctIds(list)
  /\ duplicatesRetained

\* addon.js, whose ids carry the index of the item, gives distinct ids
idsDistinct_addon ==
  output.kind = "normalized_addon" => \A list \in normalizedLists : distinctIds(list)

\* addon.js has given two items of one slug their own ids
sameSlugTwice_addon ==
  /\ output.kind = "normalized_addon"
  /\ \E list \in normalizedLists :
       /\ Len(list) = 2
       /\ toLowerCase(list[1].name) = toLowerCase(list[2].name)
       /\ list[1].id # list[2].id

(***************************************************************************)
(* Claims about the number of external calls (specification Spec)          *)
(***************************************************************************)

\* the calls the step adds under key k
added(calls, calls2, k) ==
  (IF k \in DOMAIN calls2 THEN calls2[k] ELSE 0) - (IF k \in DOMAIN calls THEN calls[k] ELSE 0)

\* the handler is called for request r in this step
startsCatalog(r) ==
  req[r].pc = "idle" /\ req'[r].pc # "idle" /\ req'[r].op = "catalog"

\* the request has no search text, or its query names the other type
shortCircuited(rec) ==
  \/ ~truthySearch(searchOf(rec.args.extra))
  \/ /\ hasSearchText(rec)
     /\ keywordIntent(rec.args.extra.search) \in {movie, series}
     /\ keywordIntent(rec.args.extra.search) # rec.args.type

\* the request finds a fresh entry under its key
servedFromCache(r) ==
  /\ req'[r].fetchAt >= 0
  /\ req'[r].key \in DOMAIN aiRecommendationsCache
  /\ now - aiRecommendationsCache[req'[r].key].timestamp < AI_CACHE_DURATION

\* a catalog request adds at most one model call, and none when it is served
\* from the cache or short-circuited; the steps after its start add none
oneModelCallPerRequest ==
  /\ \A r \in Req :
       startsCatalog(r) =>
         /\ Cardinality({k \in DOMAIN modelCalls' : added(modelCalls, modelCalls', k) > 0}) <= 1
         /\ \A k \in DOMAIN modelCalls' : added(modelCalls, modelCalls', k) <= 1
         /\ (shortCircuited(req'[r]) \/ servedFromCache(r)) => modelCalls' = modelCalls
  /\ (\A r \in Req : ~startsCatalog(r)) => modelCalls' = modelCalls

\* the lookups of key k that send their search, and those that send their
\* detail call, in this step
searchesSent(k) ==
  {p \in Req \X (1..sliceLimit) :
     /\ p[2] \in 1..Len(req'[p[1]].lookups)
     /\ req'[p[1]].lookups[p[2]].key = k
     /\ req'[p[1]].lookups[p[2]].st = "search"
     /\ (p[2] \notin 1..Len(req[p[1]].lookups) \/ req[p[1]].lookups[p[2]].st = "wait")}

detailsSent(k) ==
  {p \in Req \X (1..sliceLimit) :
     /\ p[2] \in 1..Len(req[p[1]].lookups)
     /\ req[p[1]].lookups[p[2]].key = k
     /\ req[p[1]].lookups[p[2]].st = "search"
     /\ req'[p[1]].lookups[p[2]].st = "details"}

\* every database call is the one search or the one detail call of a lookup:
\* a lookup whose call has failed sends nothing more
noDatabaseRetry ==
  /\ \A k \in DOMAIN tmdbCalls' :
       added(tmdbCalls, tmdbCalls', k)
         = Cardinality(searchesSent(k)) + Cardinality(detailsSent(k))
  /\ \A r \in Req : \A i \in 1..Len(req[r].lookups) :
       /\ req[r].lookups[i].st = "done" => req'[r].lookups[i] = req[r].lookups[i]
       /\ req[r].lookups[i].st = "details" => req'[r].lookups[i].st \in {"details", "done"}
       /\ req[r].lookups[i].st = "search" => req'[r].lookups[i].st # "wait"

\* C22 as stated: a catalog request causes at most one model call, and none
\* when it is served from the recommendation cache or short-circuited; no
\* failed model or database call is sent again within the request.
C22_OneModelCallNoRetry == [][oneModelCallPerRequest /\ noDatabaseRetry]_vars

\* part_000 does what C22 says
oneModelCallNoRetry_part_000 ==
  [][variant = "part_000" => (oneModelCallPerRequest /\ noDatabaseRetry)]_vars

\* no database call is sent again, in either file
neverRetried == [][noDatabaseRetry]_vars

\* addon.js but for the two cases: a request without search text, and a
\* request whose query names the other type
oneModelCallOtherwise_addon ==
  [][\A r \in Req :
       (variant = "addon" /\ startsCatalog(r) /\ ~shortCircuited(req'[r])) =>
         /\ Cardinality({k \in DOMAIN modelCalls' : added(modelCalls, modelCalls', k) > 0}) <= 1
         /\ \A k \in DOMAIN modelCalls' : added(modelCalls, modelCalls', k) <= 1
         /\ servedFromCache(r) => modelCalls' = modelCalls]_vars

(***************************************************************************)
(* Claims about the cache write of getAIRecommendations (SpecNorm)         *)
(***************************************************************************)

\* the model call failed in transport, or its reply did not parse: a text
\* with no field separator, a JSON text that JSON.parse rejects
callFailed ==
  IF output.kind = "normalized" THEN ~input.ok \/ noSeparator(input.text)
  ELSE IF output.kind = "normalized_addon"
  THEN ~input.outcome.ok \/ input.outcome.doc.strict = SyntaxError
  ELSE FALSE

\* getAIRecommendations has written its result to aiRecommendationsCache
wroteCache ==
  output.kind \in {"normalized", "normalized_addon"} /\ output.result.write

\* C23 as stated: a call of getAIRecommendations whose model call failed in
\* transport, or whose reply did not parse, writes nothing to the
\* recommendation cache; only a successful result is written.
C23_FailureWritesNothing == callFailed => ~wroteCache

\* a failure in transport writes nothing, in either file
transportFailureWritesNothing ==
  ( /\ output.kind = "normalized" => ~input.ok
    /\ output.kind = "normalized_addon" => ~input.outcome.ok
    /\ output.kind \in {"normalized", "normalized_addon"} ) => ~wroteCache

\* addon.js writes nothing after a failure of either kind
failureWritesNothing_addon ==
  (output.kind = "normalized_addon" /\ callFailed) => ~wroteCache

\* under Spec: in part_000 a second request has been served, from the cache,
\* the empty list that a reply without rows left there
emptyListServedFromCache_part_000 ==
  \E r, q \in Req :
    /\ variant = "part_000"
    /\ req[r].issued /\ req[r].pc = "done"
    /\ req[q].fetchAt >= 0 /\ ~req[q].issued /\ req[q].pc = "done"
    /\ req[q].key = req[r].key
    /\ req[q].key \in DOMAIN aiRecommendationsCache
    /\ listOf(aiRecommendationsCache[req[q].key].data, req[q].args.type) = Array(<<>>)
    /\ req[q].result.value = Array(<<>>)

(***************************************************************************)
(* Claims about requests without search text (specification Spec)          *)
(***************************************************************************)

\* a catalog request with no search text
noSearchText(rec) == rec.op = "catalog" /\ ~truthySearch(searchOf(rec.args.extra))

emptyAnswer == [raised |-> FALSE, value |-> Array(<<>>)]

\* a request without search text is answered {metas: []} in the step that
\* takes it, and nothing that happens later, the replies to the warmup calls
\* included, touches the request or its answer
answeredAtOnce ==
  \A r \in Req :
    /\ (startsCatalog(r) /\ noSearchText(req'[r])) =>
         (req'[r].pc = "done" /\ req'[r].result = emptyAnswer /\ tmdbCalls' = tmdbCalls)
    /\ (req[r].pc = "done" /\ noSearchText(req[r])) => req'[r] = req[r]

\* C24 as stated: a catalog request with no search text returns {metas: []}
\* at once, waiting for no model or database call; the warmup it may start is
\* detached: its success, failure or absence changes nothing of the request's
\* result and is never raised to the host.
C24_NoSearchAnsweredAtOnce == [][answeredAtOnce]_vars

\* addon.js, the file with the warmup, does what C24 says
noSearchAnsweredAtOnce_addon == [][variant = "addon" => answeredAtOnce]_vars

\* part_000 does so whenever extra is not null
noSearchAnsweredAtOnce_part_000 ==
  [][\A r \in Req :
       ( /\ variant = "part_000"
         /\ startsCatalog(r) /\ noSearchText(req'[r])
         /\ req'[r].args.extra # nullObj )
       => (req'[r].pc = "done" /\ req'[r].result = emptyAnswer)]_vars

\* a warmup call has failed or returned after its request was answered
warmupSettledLater_addon ==
  \E r \in Req, q \in WarmQueries :
    /\ variant = "addon"
    /\ noSearchText(req[r]) /\ req[r].pc = "done" /\ req[r].result = emptyAnswer
    /\ aiCacheKey_addon(q) \in DOMAIN modelCalls
    /\ warm[q] = 0

(***************************************************************************)
(* One catalog request whose lookups can fail (SpecIsolate)                *)
(***************************************************************************)

IsolateArgs == [type : {movie}, extra : {ExtraOf(W_noir)}]

\* one catalog request for two recommendations; each lookup fails, finds
\* nothing, or finds a record with or without a poster and an imdb_id
IsolateNext ==
  \/ \E args \in IsolateArgs : CatalogCall(1, args)
  \/ \E args \in IsolateArgs : CatalogCall_addon(1, args)
  \/ \E outcome \in FanReplies : ModelReply(1, outcome)
  \/ \E outcome \in {[ok |-> TRUE, doc |-> [strict |-> DocAscending]]} : ModelReply_addon(1, outcome)
  \/ \E i \in 1..2, outcome \in SearchOutcomes : SearchReply(1, i, outcome)
  \/ \E i \in 1..2, outcome \in DetailsOutcomes : DetailsReply(1, i, outcome)

SpecIsolate == FanInit /\ [][IsolateNext]_vars

\* the lookups of a request that ended with a poster and an external id
resolvedLookups(rec) ==
  {i \in 1..Len(rec.lookups) : rec.lookups[i].valid /\ resolvedRecord(rec.lookups[i].data)}

\* C25: in an answered catalog request every recommendation whose lookup
\* resolved with a poster and an external id appears in the metas, under its
\* name and its external id, whatever happened to the lookups of the other
\* recommendations; only the items whose lookup failed or ended unresolved
\* are missing.
C25_FailureIsolated ==
  \A r \in Req :
    (answered(req[r]) /\ req[r].fetchAt >= 0) =>
      /\ Len(metasOfRequest(req[r])) = Cardinality(resolvedLookups(req[r]))
      /\ \A i \in resolvedLookups(req[r]) :
           \E j \in 1..Len(metasOfRequest(req[r])) :
             /\ metasOfRequest(req[r])[j].name = req[r].lookups[i].item.name
             /\ metasOfRequest(req[r])[j].id = req[r].lookups[i].data.imdb_id

\* of two recommendations the lookup of one failed and the other is returned
C25_Witness ==
  \E r \in Req :
    /\ answered(req[r])
    /\ Len(req[r].lookups) = 2
    /\ \E i \in 1..2 : req[r].lookups[i].data = nullObj /\ ~req[r].lookups[i].hit
    /\ Cardinality(resolvedLookups(req[r])) = 1
    /\ Len(metasOfRequest(req[r])) = 1

(***************************************************************************)
(* Claims about two writers of one key (specification Spec)                *)
(***************************************************************************)

\* the lookups in which searchTMDB missed and wrote its result under its key
writers ==
  {p \in Req \X (1..sliceLimit) :
     /\ p[2] \in 1..Len(req[p[1]].lookups)
     /\ req[p[1]].lookups[p[2]].st = "done"
     /\ req[p[1]].lookups[p[2]].wrote}

lookupOf(p) == req[p[1]].lookups[p[2]]

\* C26 as stated: when two requests for one key both missed and both wrote,
\* within the same half hour, the cache holds under the key the value that
\* both of them returned to their callers: the same semantic answer.
C26_RaceGivesOneAnswer ==
  /\ \A r, q \in Req :
       ( /\ r # q
         /\ req[r].wrote /\ req[q].wrote
         /\ req[r].key = req[q].key
         /\ req[r].replyAt = req[q].replyAt )
       => /\ req[r].key \in DOMAIN aiRecommendationsCache
          /\ aiRecommendationsCache[req[r].key].data = req[r].got
          /\ aiRecommendationsCache[req[r].key].data = req[q].got
  /\ \A p, q \in writers :
       ( /\ p # q
         /\ lookupOf(p).key = lookupOf(q).key
         /\ lookupOf(p).at = lookupOf(q).at )
       => /\ lookupOf(p).key \in DOMAIN tmdbCache
          /\ tmdbCache[lookupOf(p).key].data = lookupOf(p).data
          /\ tmdbCache[lookupOf(p).key].data = lookupOf(q).data

\* C26 (as amended): when two requests for one key both missed and both
\* wrote, the cache holds one entry under the key; it is the value written
\* last, and that is the value its writer returned to its caller.
C26_LastWriteWins ==
  /\ \A r \in Req :
       req[r].wrote =>
         /\ req[r].key \in DOMAIN aiRecommendationsCache
         /\ \E q \in Req :
              /\ req[q].wrote
              /\ req[q].key = req[r].key
              /\ req[q].replyAt >= req[r].replyAt
              /\ aiRecommendationsCache[req[r].key]
                   = [timestamp |-> req[q].replyAt, data |-> req[q].got]
  /\ \A p \in writers :
       /\ lookupOf(p).key \in DOMAIN tmdbCache
       /\ \E q \in writers :
            /\ lookupOf(q).key = lookupOf(p).key
            /\ lookupOf(q).at >= lookupOf(p).at
            /\ tmdbCache[lookupOf(p).key]
                 = [timestamp |-> lookupOf(q).at, data |-> lookupOf(q).data]

\* two requests for one key both missed and both wrote, with different
\* replies of the model, and both have been answered
C26_Witness ==
  \E r, q \in Req :
    /\ r # q
    /\ req[r].wrote /\ req[q].wrote
    /\ req[r].key = req[q].key
    /\ req[r].replyAt = req[q].replyAt
    /\ req[r].got # req[q].got
    /\ req[r].pc = "done" /\ req[q].pc = "done"

\* the value of the first parse that does not raise, in the order of lines
\* 284-308: JSON.parse, JSON.parse of the repaired text, JSON5.parse
firstAccepted(doc) ==
  IF doc.strict # SyntaxError THEN doc.strict
  ELSE IF "repaired" \in DOMAIN doc /\ doc.repaired # SyntaxError THEN doc.repaired
  ELSE IF "lenient" \in DOMAIN doc /\ doc.lenient # SyntaxError THEN doc.lenient
  ELSE SyntaxError

\* C27 as stated: the parse strategies are an ordered chain; a reply that
\* strict parsing rejects and the repaired or the lenient (JSON5) parse accepts
\* yields the recommendations of the accepted document, and the empty failure
\* result is returned only when every strategy fails.
C27_ParseFallbackChain ==
  (output.kind = "normalized_addon" /\ input.outcome.ok) =>
     output.result =
       getAIRecommendationsResult_addon(
         [ok |-> TRUE, doc |-> [strict |-> firstAccepted(input.outcome.doc)]], input.query)

\* a reply that strict parsing accepts yields the recommendations of its document
strictAccepted_addon ==
  (output.kind = "normalized_addon" /\ input.outcome.ok
     /\ input.outcome.doc.strict # SyntaxError) =>
     output.result =
       getAIRecommendationsResult_addon(
         [ok |-> TRUE, doc |-> [strict |-> firstAccepted(input.outcome.doc)]], input.query)

\* a reply that only a later strategy accepts has been answered with the
\* empty failure result
laterStrategyUnused_addon ==
  /\ output.kind = "normalized_addon"
  /\ input.outcome.ok
  /\ input.outcome.doc.strict = SyntaxError
  /\ firstAccepted(input.outcome.doc) # SyntaxError
  /\ output.result.data =
       emptyResponse_addon(determineIntentFromKeywords_addon(input.query))
  /\ ~output.result.write

\* getAIRecommendations of request r returned the data of a cache entry
cachedAnswer(r) ==
  req[r].op = "catalog" /\ req[r].fetchAt >= 0 /\ ~req[r].issued /\ req[r].got # undefinedObj

\* request q stored its result under the pair (query, type) that r asks for
storedSamePair(q, r) ==
  /\ q # r
  /\ req[q].wrote
  /\ req[q].replyAt <= req[r].fetchAt
  /\ searchOf(req[q].args.extra) = searchOf(req[r].args.extra)
  /\ req[q].args.type = req[r].args.type

\* the lookups that searchTMDB answered from tmdbCache
cachedLookups ==
  {p \in Req \X (1..sliceLimit) :
     /\ p[2] \in 1..Len(req[p[1]].lookups)
     /\ req[p[1]].lookups[p[2]].hit}

\* two lookups are for the same (title, type, year)
sameTriple(l, m) ==
  l.item.name = m.item.name /\ l.type = m.type /\ l.item.year = m.item.year

\* a value of the recommendation cache is returned only to a request for the
\* pair it was stored under
exactPairs ==
  \A r \in Req : cachedAnswer(r) => \E q \in Req : storedSamePair(q, r)

\* a value of the metadata cache is returned only to a lookup of the triple it
\* was stored under
exactTriples ==
  \A p \in cachedLookups :
    \E q \in writers : q # p /\ sameTriple(lookupOf(q), lookupOf(p))

\* C28 as stated: cache keys are exact and collision-free. A value is returned
\* from the recommendation cache only to a request whose (query, type) equals
\* the pair it was stored under, and from the metadata cache only for an
\* identical (title, type, year); two distinct pairs or triples never map to
\* the same entry.
C28_KeysExact ==
  /\ exactPairs
  /\ exactTriples
  /\ \A r, q \in Req :
       (req[r].fetchAt >= 0 /\ req[q].fetchAt >= 0 /\ req[r].key = req[q].key) =>
         /\ searchOf(req[r].args.extra) = searchOf(req[q].args.extra)
         /\ req[r].args.type = req[q].args.type

\* part_000 returns recommendations only to the pair they were stored under
exactPairs_part_000 == variant = "part_000" => exactPairs

\* in addon.js a request of one type has been answered with the entry that a
\* request of the other type stored
otherTypeServed_addon ==
  \E r, q \in Req :
    /\ variant = "addon"
    /\ cachedAnswer(r)
    /\ req[q].wrote /\ req[q].key = req[r].key
    /\ req[q].args.type # req[r].args.type

(***************************************************************************)
(* Claims about the type of the catalog (specification SpecType)           *)
(***************************************************************************)

\* a series whose name is the word "movie", and one named "Ab"
RowSeriesMovie == join(<<series, movie, <<"2","0","0","1">>, <<"d">>, <<"r">>>>, <<"|">>)

RowSeriesAb == join(<<series, N_Ab, <<"2","0","0","3">>, <<"d">>, <<"r">>>>, <<"|">>)

\* a reply of rows of both types
TypeReplies ==
  { [ ok   |-> TRUE,
      text |-> join(<<HeaderLine, RowFull, RowSeriesMovie, RowSeriesAb>>, <<"\n">>) ] }

\* a JSON reply of both lists
DocSeriesMovie ==
  [ intent |-> undefined,
    recommendations |->
      [ movies |-> Array(<<JsonItem(undefined, N_Ab, Num(1995))>>),
        series |-> Array(<<JsonItem(undefined, movie, Num(2001)),
                           JsonItem(undefined, N_Ab, Num(2003))>>) ] ]

TypeArgs == [type : Types, extra : {ExtraOf(W_noir)}]

\* one catalog request of either type, its model call and its lookups
TypeNext ==
  \/ \E args \in TypeArgs : CatalogCall(1, args)
  \/ \E args \in TypeArgs : CatalogCall_addon(1, args)
  \/ \E outcome \in TypeReplies : ModelReply(1, outcome)
  \/ \E outcome \in {[ok |-> TRUE, doc |-> [strict |-> DocSeriesMovie]]} : ModelReply_addon(1, outcome)
  \/ \E i \in 1..2, outcome \in SearchOutcomes : SearchReply(1, i, outcome)
  \/ \E i \in 1..2, outcome \in DetailsOutcomes : DetailsReply(1, i, outcome)

SpecType == FanInit /\ [][TypeNext]_vars

\* every database search of the request was scoped to its type, and every meta
\* it returned has its type
typeHonored(rec) ==
  /\ \A i \in 1..Len(rec.lookups) : rec.lookups[i].valid => rec.lookups[i].type = rec.args.type
  /\ \A i \in 1..Len(metasOfRequest(rec)) : metasOfRequest(rec)[i].type = rec.args.type

\* C29 as stated: every item in the metas returned for a catalog request of
\* type T has type T and was resolved by a database search scoped to T,
\* whatever the name of the recommendation.
C29_CatalogTypeHonored == \A r \in Req : answered(req[r]) => typeHonored(req[r])

\* part_000 honors the type of the catalog
catalogTypeHonored_part_000 ==
  \A r \in Req : (variant = "part_000" /\ answered(req[r])) => typeHonored(req[r])

\* addon.js honors the type of a movie catalog
movieCatalogHonored_addon ==
  \A r \in Req :
    (variant = "addon" /\ answered(req[r]) /\ req[r].args.type = movie) => typeHonored(req[r])

\* part_000 has answered a series request with the series named "movie"
seriesNamedMovie_part_000 ==
  \E r \in Req :
    /\ variant = "part_000" /\ answered(req[r]) /\ req[r].args.type = series
    /\ \E i \in 1..Len(metasOfRequest(req[r])) :
         metasOfRequest(req[r])[i].name = movie /\ metasOfRequest(req[r])[i].type = series

\* addon.js has answered a series request with a meta of type movie
movieUnderSeries_addon ==
  \E r \in Req :
    /\ variant = "addon" /\ answered(req[r]) /\ req[r].args.type = series
    /\ \E i \in 1..Len(metasOfRequest(req[r])) : metasOfRequest(req[r])[i].type = movie

====
